---- MODULE Spec2Model ----
(***************************************************************************)
(* Model of the counterexample-reconstruction core (src/src/model.ts):     *)
(* class Model, which decodes one solver model text into lookup tables and *)
(* answers valueOf / variables / mutableVariables queries by hydration.    *)
(*                                                                         *)
(* Conventions.  A JavaScript string is a sequence of one-character        *)
(* strings, so that startsWith, substr, trim and parseInt are computed.    *)
(* A symbolic expression (SExpr) is Atom(s) or List(l).  A closure built   *)
(* by one of the chain decoders is the tree of its captured values, and    *)
(* the matching Apply operator is the closure's body.  A thrown exception  *)
(* is a value Thrown(..) that every caller propagates.                     *)
(***************************************************************************)
EXTENDS Integers, Sequences, FiniteSets, TLC

VARIABLES
  smt,        \* the constructor's argument (text)
  pc,         \* "new" | "ready" (constructed) | "failed" (the constructor threw)
  parsed,     \* TRUE once parseSExpr has been called on the text
  data,       \* the parsed text (`data`, line 220)
  model,      \* the Model object: its fields, lines 202-212
  thrown,     \* the exception the constructor threw, or NoError
  query,      \* the last query made
  result      \* what the last query returned or threw

vars_all == <<smt, pc, parsed, data, model, thrown, query, result>>

(***************************************************************************)
(* Strings                                                                 *)
(***************************************************************************)
Digits == <<"0", "1", "2", "3", "4", "5", "6", "7", "8", "9">>
IsWS(c) == c \in {" ", "\t", "\n"}
IsDigit(c) == \E i \in 1..Len(Digits) : Digits[i] = c

\* String.prototype.startsWith
startsWith(s, p) == Len(s) >= Len(p) /\ SubSeq(s, 1, Len(p)) = p
\* String.prototype.endsWith
endsWith(s, p) == Len(s) >= Len(p) /\ SubSeq(s, Len(s) - Len(p) + 1, Len(s)) = p
\* s.substr(n): the rest of s from 0-based position n
substr(s, n) == SubSeq(s, n + 1, Len(s))
\* s.substr(1, s.length - 2): s without its first and last character
inner(s) == SubSeq(s, 2, Len(s) - 1)

RECURSIVE trimStart(_)
trimStart(s) == IF s # <<>> /\ IsWS(Head(s)) THEN trimStart(Tail(s)) ELSE s
RECURSIVE trimEnd(_)
trimEnd(s) ==
  IF s # <<>> /\ IsWS(s[Len(s)]) THEN trimEnd(SubSeq(s, 1, Len(s) - 1)) ELSE s
\* String.prototype.trim
trim(s) == trimEnd(trimStart(s))

\* The string literals of model.ts
S_error_marker == <<"(", "e", "r", "r", "o", "r">>
S_model == <<"m", "o", "d", "e", "l">>
S_define_fun == <<"d", "e", "f", "i", "n", "e", "-", "f", "u", "n">>
S_v_ == <<"v", "_">>
S_l_ == <<"l", "_">>
S_h_ == <<"h", "_">>
S_arrlength == <<"a", "r", "r", "l", "e", "n", "g", "t", "h">>
S_arrelems == <<"a", "r", "r", "e", "l", "e", "m", "s">>
S_objproperties == <<"o", "b", "j", "p", "r", "o", "p", "e", "r", "t", "i", "e", "s">>
S_objfield == <<"o", "b", "j", "f", "i", "e", "l", "d">>
S_c_ == <<"c", "_">>
S_app == <<"a", "p", "p">>
S_pre == <<"p", "r", "e">>
S_post == <<"p", "o", "s", "t">>
S_eff == <<"e", "f", "f">>
S_call == <<"c", "a", "l", "l">>
S_x0 == <<"x", "!", "0">>
S_x1 == <<"x", "!", "1">>
S_xbang == <<"x", "!">>
S_Loc == <<"L", "o", "c">>
S_JSVal == <<"J", "S", "V", "a", "l">>
S_String == <<"S", "t", "r", "i", "n", "g">>
S_Bool == <<"B", "o", "o", "l">>
S_ite == <<"i", "t", "e">>
S_eq == <<"=">>
S_and == <<"a", "n", "d">>
S_us == <<"_">>
S_as_array == <<"a", "s", "-", "a", "r", "r", "a", "y">>
S_jsundefined == <<"j", "s", "u", "n", "d", "e", "f", "i", "n", "e", "d">>
S_jsnull == <<"j", "s", "n", "u", "l", "l">>
S_jsobj_ == <<"j", "s", "o", "b", "j", "_">>
S_Arr == <<"A", "r", "r", "!">>
S_jsbool == <<"j", "s", "b", "o", "o", "l">>
S_jsint == <<"j", "s", "i", "n", "t">>
S_jsreal == <<"j", "s", "r", "e", "a", "l">>
S_jsstr == <<"j", "s", "s", "t", "r">>
S_jsfun == <<"j", "s", "f", "u", "n">>
S_jsobj == <<"j", "s", "o", "b", "j">>
S_jsobj_Array == <<"j", "s", "o", "b", "j", "_", "A", "r", "r", "a", "y">>
S_true == <<"t", "r", "u", "e">>
S_false == <<"f", "a", "l", "s", "e">>
S_str_concat == <<"s", "t", "r", ".", "+", "+">>
S_seq_unit == <<"s", "e", "q", ".", "u", "n", "i", "t">>
S_str_from_code == <<"s", "t", "r", ".", "f", "r", "o", "m", "_", "c", "o", "d", "e">>
S_str_at == <<"s", "t", "r", ".", "a", "t">>
S_char == <<"c", "h", "a", "r">>
S_hash_x == <<"#", "x">>
S_hash_b == <<"#", "b">>
S_minus == <<"-">>
S_slash == <<"/">>
S_star == <<"*">>
S_plus == <<"+">>
S_to_real == <<"t", "o", "_", "r", "e", "a", "l">>
S_to_int == <<"t", "o", "_", "i", "n", "t">>
S_quote == <<"\"">>
S_empty_quotes == <<"\"", "\"">>

(***************************************************************************)
(* Numbers: a JavaScript number is an integer or NaN.                      *)
(***************************************************************************)
NaN == [nan |-> TRUE, n |-> 0]
Int_(n) == [nan |-> FALSE, n |-> n]

\* the digits parseInt knows, by value
RadixDigits == <<"0", "1", "2", "3", "4", "5", "6", "7", "8", "9",
                 "a", "b", "c", "d", "e", "f">>
UpperDigits == <<"0", "1", "2", "3", "4", "5", "6", "7", "8", "9",
                 "A", "B", "C", "D", "E", "F">>
IsRadixDigit(c, radix) ==
  \E i \in 1..radix : RadixDigits[i] = c \/ UpperDigits[i] = c
RadixDigitVal(c) ==
  (CHOOSE i \in 1..Len(RadixDigits) : RadixDigits[i] = c \/ UpperDigits[i] = c) - 1

RECURSIVE digitsValue(_, _, _, _)
\* value of the longest run of digits of s from position i on
digitsValue(s, i, radix, acc) ==
  IF i <= Len(s) /\ IsRadixDigit(s[i], radix)
    THEN digitsValue(s, i + 1, radix, acc * radix + RadixDigitVal(s[i]))
    ELSE acc

\* parseInt(s, radix): optional white space, optional sign, leading digits;
\* NaN when no digit follows.
parseInt(s0, radix) ==
  LET s == trimStart(s0)
      neg == s # <<>> /\ Head(s) = "-"
      body == IF s # <<>> /\ Head(s) \in {"-", "+"} THEN Tail(s) ELSE s
  IN IF body = <<>> \/ ~IsRadixDigit(Head(body), radix) THEN NaN
     ELSE Int_((IF neg THEN -1 ELSE 1) * digitsValue(body, 1, radix, 0))

RECURSIVE natDigits(_)
natDigits(n) ==
  IF n < 10 THEN <<Digits[n + 1]>> ELSE natDigits(n \div 10) \o <<Digits[(n % 10) + 1]>>
\* String(n) for a number n
numToString(v) ==
  IF v.nan THEN <<"N", "a", "N">>
  ELSE IF v.n < 0 THEN <<"-">> \o natDigits(-v.n) ELSE natDigits(v.n)

(***************************************************************************)
(* Symbolic expressions (./util: SExpr, parseSExpr, matchSExpr)             *)
(***************************************************************************)
Atom(s) == [k |-> "atom", s |-> s, l |-> <<>>]
List(l) == [k |-> "list", s |-> <<>>, l |-> l]
IsAtom(e) == e.k = "atom"      \* typeof e === 'string'
IsList(e) == e.k = "list"

\* The parser: white space separates; "(" ... ")" is a list; any other run of
\* characters up to white space or a parenthesis is an atom.
RECURSIVE skipWS(_, _)
skipWS(cs, i) == IF i <= Len(cs) /\ IsWS(cs[i]) THEN skipWS(cs, i + 1) ELSE i
RECURSIVE atomEnd(_, _)
atomEnd(cs, i) ==
  IF i <= Len(cs) /\ ~IsWS(cs[i]) /\ cs[i] \notin {"(", ")"}
    THEN atomEnd(cs, i + 1) ELSE i

ParseFail == [ok |-> FALSE, e |-> Atom(<<>>), next |-> 0]
RECURSIVE parseAt(_, _)
RECURSIVE parseListAt(_, _, _)
parseAt(cs, i0) ==
  LET i == skipWS(cs, i0) IN
  IF i > Len(cs) THEN ParseFail
  ELSE IF cs[i] = "(" THEN parseListAt(cs, i + 1, <<>>)
  ELSE IF cs[i] = ")" THEN ParseFail
  ELSE LET j == atomEnd(cs, i) IN
       [ok |-> TRUE, e |-> Atom(SubSeq(cs, i, j - 1)), next |-> j]
parseListAt(cs, i0, acc) ==
  LET i == skipWS(cs, i0) IN
  IF i > Len(cs) THEN ParseFail
  ELSE IF cs[i] = ")" THEN [ok |-> TRUE, e |-> List(acc), next |-> i + 1]
  ELSE LET r == parseAt(cs, i) IN
       IF r.ok THEN parseListAt(cs, r.next, Append(acc, r.e)) ELSE ParseFail

\* parseSExpr(input): the tree, or a thrown parse error (ok = FALSE)
parseSExpr(input) ==
  LET r == parseAt(input, 1) IN
  IF r.ok /\ skipWS(input, r.next) > Len(input) THEN r ELSE ParseFail

\* the text of a tree, as the solver prints it
RECURSIVE printSExpr(_)
RECURSIVE printItems(_)
printSExpr(e) ==
  IF IsAtom(e) THEN e.s ELSE <<"(">> \o printItems(e.l) \o <<")">>
printItems(l) ==
  IF l = <<>> THEN <<>>
  ELSE IF Len(l) = 1 THEN printSExpr(l[1])
  ELSE printSExpr(l[1]) \o <<" ">> \o printItems(Tail(l))

\* Patterns of matchSExpr: a literal atom, { name }, { group }, { expr }, a list.
PLit(s) == [p |-> "lit", s |-> s, n |-> "", l |-> <<>>]
PName(n) == [p |-> "name", s |-> <<>>, n |-> n, l |-> <<>>]
PGroup(n) == [p |-> "group", s |-> <<>>, n |-> n, l |-> <<>>]
PExpr(n) == [p |-> "expr", s |-> <<>>, n |-> n, l |-> <<>>]
PList(l) == [p |-> "list", s |-> <<>>, n |-> "", l |-> l]

NoMatch == [ok |-> FALSE, c |-> <<>>]
Matched(c) == [ok |-> TRUE, c |-> c]
RECURSIVE matchSExpr(_, _)
RECURSIVE matchItems(_, _, _, _)
\* matchSExpr(expr, pattern): the captures by name, or null (ok = FALSE)
matchSExpr(expr, pat) ==
  CASE pat.p = "lit" -> IF IsAtom(expr) /\ expr.s = pat.s THEN Matched(<<>>) ELSE NoMatch
    [] pat.p = "name" -> IF IsAtom(expr) THEN Matched(pat.n :> expr) ELSE NoMatch
    [] pat.p = "group" -> IF IsList(expr) THEN Matched(pat.n :> expr) ELSE NoMatch
    [] pat.p = "expr" -> Matched(pat.n :> expr)
    [] pat.p = "list" ->
         IF IsList(expr) /\ Len(expr.l) = Len(pat.l)
           THEN matchItems(expr.l, pat.l, 1, <<>>) ELSE NoMatch
matchItems(es, ps, i, acc) ==
  IF i > Len(ps) THEN Matched(acc)
  ELSE LET r == matchSExpr(es[i], ps[i]) IN
       IF r.ok THEN matchItems(es, ps, i + 1, r.c @@ acc) ELSE NoMatch

(***************************************************************************)
(* Errors and completions                                                  *)
(***************************************************************************)
\* getOptions().filename (src/src/options.ts: the default options)
filename == <<>>

\* modelError(`${msg}${arg}`): the MessageException built at lines 309-316.
\* msg is the fixed part of the template literal, arg the interpolated text.
modelError(msg, arg) ==
  [status |-> "error", type |-> "unrecognized-model",
   loc |-> [file |-> filename, start |-> <<0, 0>>, end |-> <<0, 0>>],
   description |-> [prefix |-> "cannot parse smt ", msg |-> msg, arg |-> arg]]
\* `throw this.modelError(..)`
Throw(msg, arg) == [type |-> "throw", error |-> modelError(msg, arg)]
\* an exception of the runtime itself (RangeError, ...)
ThrowNative(kind) == [type |-> "throw", error |-> [status |-> "native", type |-> kind]]
IsThrow(x) == x.type = "throw"
NoError == [status |-> "none"]

\* Array.prototype.toString of an SExpr: atoms joined by commas
RECURSIVE toString(_)
RECURSIVE joinComma(_)
toString(e) == IF IsAtom(e) THEN e.s ELSE joinComma(e.l)
joinComma(l) ==
  IF l = <<>> THEN <<>>
  ELSE IF Len(l) = 1 THEN toString(l[1])
  ELSE toString(l[1]) \o <<",">> \o joinComma(Tail(l))

\* JSON.stringify of an SExpr (atoms of the model hold no character to escape
\* but the double quote)
RECURSIVE jsonEscape(_)
jsonEscape(s) ==
  IF s = <<>> THEN <<>>
  ELSE (IF Head(s) \in {"\"", "\\"} THEN <<"\\", Head(s)>> ELSE <<Head(s)>>)
         \o jsonEscape(Tail(s))
RECURSIVE jsonStringify(_)
RECURSIVE jsonItems(_)
jsonStringify(e) ==
  IF IsAtom(e) THEN <<"\"">> \o jsonEscape(e.s) \o <<"\"">>
  ELSE <<"[">> \o jsonItems(e.l) \o <<"]">>
jsonItems(l) ==
  IF l = <<>> THEN <<>>
  ELSE IF Len(l) = 1 THEN jsonStringify(l[1])
  ELSE jsonStringify(l[1]) \o <<",">> \o jsonItems(Tail(l))

(***************************************************************************)
(* Lazy values and their parsers (lines 318-533)                           *)
(***************************************************************************)
Num(v) == [type |-> "num", v |-> v]
Bool(b) == [type |-> "bool", v |-> b]
Str(s) == [type |-> "str", v |-> s]
Null == [type |-> "null"]
Undefined == [type |-> "undefined"]
ObjCls(cls, args) == [type |-> "obj-cls", cls |-> cls, args |-> args]
ArrRef(name) == [type |-> "arr-ref", name |-> name]
ObjRef(name) == [type |-> "obj-ref", name |-> name]
FunRef(name) == [type |-> "fun-ref", name |-> name]
Loc(name) == [type |-> "loc", name |-> name]
\* the JavaScript null a `X | null` function returns
JSNull == [type |-> "js-null"]

\* parseFloat(s) on the numerals of the model (no fraction, no exponent)
parseFloat(s) == parseInt(s, 10)

\* a quotient that is no integer (not represented further)
NonInteger == [nan |-> TRUE, n |-> 1]
divide(a, b) ==
  IF ~a.nan /\ ~b.nan /\ b.n # 0 /\ a.n % b.n = 0 THEN Int_(a.n \div b.n) ELSE NonInteger
arith(op, a, b) ==
  IF a.nan \/ b.nan THEN (IF a.nan THEN a ELSE b)
  ELSE IF op = "*" THEN Int_(a.n * b.n) ELSE Int_(a.n + b.n)

RECURSIVE parseNum(_)
parseNum(v) ==
  IF IsAtom(v) THEN
    LET num == parseFloat(v.s)
        hexNum == parseInt(substr(v.s, 2), 16)
        binNum == parseInt(substr(v.s, 2), 2)
    IN IF ~num.nan THEN Num(num)
       ELSE IF startsWith(v.s, S_hash_x) /\ ~hexNum.nan THEN Num(hexNum)
       ELSE IF startsWith(v.s, S_hash_b) /\ ~binNum.nan THEN Num(binNum)
       ELSE Throw("cannot parse number ", v.s)
  ELSE IF Len(v.l) = 0 THEN Throw("cannot parse number ", toString(v))
  ELSE
    LET op == v.l[1]
        a == parseNum(v.l[2])
        b == parseNum(v.l[3])
    IN IF op = Atom(S_minus) /\ Len(v.l) = 2 THEN
         (IF IsThrow(a) THEN a
          ELSE Num(IF a.v.nan THEN a.v ELSE Int_(-a.v.n)))
       ELSE IF op = Atom(S_slash) /\ Len(v.l) = 3 THEN
         (IF IsThrow(a) THEN a ELSE IF IsThrow(b) THEN b ELSE Num(divide(a.v, b.v)))
       ELSE IF op = Atom(S_star) /\ Len(v.l) = 3 THEN
         (IF IsThrow(a) THEN a ELSE IF IsThrow(b) THEN b ELSE Num(arith("*", a.v, b.v)))
       ELSE IF op = Atom(S_plus) /\ Len(v.l) = 3 THEN
         (IF IsThrow(a) THEN a ELSE IF IsThrow(b) THEN b ELSE Num(arith("+", a.v, b.v)))
       ELSE IF op = Atom(S_to_real) /\ Len(v.l) = 2 THEN a
       ELSE IF op = Atom(S_to_int) /\ Len(v.l) = 2 THEN a   \* Math.floor of an integer
       ELSE Throw("cannot parse number expression ", jsonStringify(v))

\* string | null results
NoStr == [null |-> TRUE, s |-> <<>>]
SomeStr(s) == [null |-> FALSE, s |-> s]
\* number | null results
NoCode == [null |-> TRUE, v |-> NaN]
SomeCode(v) == [null |-> FALSE, v |-> v]

\* the printable ASCII characters, from code 32 on (code 96 by its number)
Ascii == <<" ", "!", "\"", "#", "$", "%", "&", "'", "(", ")", "*", "+", ",", "-", ".", "/",
           "0", "1", "2", "3", "4", "5", "6", "7", "8", "9", ":", ";", "<", "=", ">", "?",
           "@", "A", "B", "C", "D", "E", "F", "G", "H", "I", "J", "K", "L", "M", "N", "O",
           "P", "Q", "R", "S", "T", "U", "V", "W", "X", "Y", "Z", "[", "\\", "]", "^", "_",
           "\\u96", "a", "b", "c", "d", "e", "f", "g", "h", "i", "j", "k", "l", "m", "n", "o",
           "p", "q", "r", "s", "t", "u", "v", "w", "x", "y", "z", "{", "|", "}", "~">>
\* String.fromCharCode(v): the one-character string with that code (NaN is 0)
fromCharCode(v) ==
  LET c == IF v.nan THEN 0 ELSE v.n % 65536 IN
  IF c >= 32 /\ c <= 126 THEN <<Ascii[c - 31]>> ELSE <<"\\u" \o ToString(c)>>

\* vchars.replace(/\\x(\d\d)/g, (m, c) => String.fromCharCode(parseInt(c, 16)))
RECURSIVE replaceEscapes(_)
replaceEscapes(s) ==
  IF Len(s) >= 4 /\ s[1] = "\\" /\ s[2] = "x" /\ IsDigit(s[3]) /\ IsDigit(s[4])
    THEN fromCharCode(parseInt(<<s[3], s[4]>>, 16)) \o replaceEscapes(SubSeq(s, 5, Len(s)))
  ELSE IF s = <<>> THEN <<>>
  ELSE <<Head(s)>> \o replaceEscapes(Tail(s))

parseCharCode(v) ==
  IF IsAtom(v) THEN
    LET num == parseInt(v.s, 10) IN IF ~num.nan THEN SomeCode(num) ELSE NoCode
  ELSE IF Len(v.l) = 2 /\ v.l[1] = Atom(S_char) THEN
    LET charLit == v.l[2] IN
    IF IsAtom(charLit) /\ startsWith(charLit.s, S_hash_x)
      THEN SomeCode(parseInt(substr(charLit.s, 2), 16))
    ELSE IF IsAtom(charLit) /\ startsWith(charLit.s, S_hash_b)
      THEN SomeCode(parseInt(substr(charLit.s, 2), 2))
    ELSE NoCode
  ELSE NoCode

RECURSIVE parseStringValue(_)
RECURSIVE parseStringParts(_, _, _)
parseStringValue(v) ==
  IF IsAtom(v) THEN
    IF startsWith(v.s, S_quote) /\ endsWith(v.s, S_quote)
      THEN SomeStr(replaceEscapes(inner(v.s)))
    ELSE IF v.s = S_empty_quotes THEN SomeStr(<<>>)
    ELSE NoStr
  ELSE IF Len(v.l) = 0 THEN NoStr
  ELSE
    LET op == v.l[1]
        charCode == parseCharCode(v.l[2])
    IN IF op = Atom(S_str_concat) THEN parseStringParts(v.l, 2, <<>>)
       ELSE IF op \in {Atom(S_seq_unit), Atom(S_str_from_code)} THEN
         (IF Len(v.l) # 2 THEN NoStr
          ELSE IF charCode.null THEN NoStr
          ELSE SomeStr(fromCharCode(charCode.v)))
       ELSE NoStr
\* the loop of lines 399-405
parseStringParts(l, i, acc) ==
  IF i > Len(l) THEN SomeStr(acc)
  ELSE LET part == parseStringValue(l[i]) IN
       IF part.null THEN NoStr ELSE parseStringParts(l, i + 1, acc \o part.s)

\* strValue !== null ? { type: 'str', v: strValue } : otherwise
strOr(strValue, otherwise) == IF strValue.null THEN otherwise ELSE Str(strValue.s)

tryParseSimpleValue(s) ==
  IF IsAtom(s) THEN
    IF s.s = S_jsundefined THEN Undefined
    ELSE IF s.s = S_jsnull THEN Null
    ELSE JSNull
  ELSE IF Len(s.l) < 1 THEN JSNull
  ELSE
    LET tag == s.l[1] IN
    IF ~IsAtom(tag) THEN JSNull
    ELSE IF tag.s = S_jsbool THEN
      (IF Len(s.l) # 2 THEN JSNull
       ELSE IF ~IsAtom(s.l[2]) THEN JSNull
       ELSE Bool(s.l[2].s = S_true))
    ELSE IF tag.s \in {S_jsint, S_jsreal} THEN
      (IF Len(s.l) # 2 THEN JSNull ELSE parseNum(s.l[2]))
    ELSE IF tag.s = S_jsstr THEN
      (IF Len(s.l) # 2 THEN JSNull
       ELSE strOr(parseStringValue(s.l[2]), JSNull))
    ELSE JSNull

RECURSIVE parseLazyValue(_)
RECURSIVE parseLazyArgs(_, _, _)
parseLazyValue(s) ==
  IF IsAtom(s) THEN
    IF s.s = S_jsundefined THEN Undefined
    ELSE IF s.s = S_jsnull THEN Null
    ELSE IF startsWith(s.s, S_jsobj_) THEN ObjCls(substr(s.s, 6), <<>>)
    ELSE IF startsWith(s.s, S_Arr) THEN ArrRef(s.s)
    ELSE Throw("", s.s)
  ELSE IF Len(s.l) < 1 THEN Throw("", toString(s))
  ELSE
    LET tag == s.l[1]
        v == s.l[2]
    IN
    IF ~IsAtom(tag) THEN Throw("", toString(tag))
    ELSE IF tag.s = S_jsbool THEN
      (IF Len(s.l) # 2 THEN Throw("", toString(s))
       ELSE IF ~IsAtom(v) THEN Throw("", toString(s))
       ELSE Bool(v.s = S_true))
    ELSE IF tag.s \in {S_jsint, S_jsreal} THEN
      (IF Len(s.l) # 2 THEN Throw("", toString(s)) ELSE parseNum(v))
    ELSE IF tag.s = S_jsstr THEN
      (IF Len(s.l) # 2 THEN Throw("", toString(s))
       ELSE strOr(parseStringValue(v), Throw("cannot parse string value", <<>>)))
    ELSE IF tag.s = S_jsfun THEN
      (IF Len(s.l) # 2 THEN Throw("", toString(s))
       ELSE IF ~IsAtom(v) THEN Throw("", toString(s))
       ELSE FunRef(v.s))
    ELSE IF tag.s = S_jsobj THEN
      (IF Len(s.l) # 2 THEN Throw("", toString(s))
       ELSE IF ~IsAtom(v) THEN Throw("", toString(s))
       ELSE ObjRef(v.s))
    ELSE IF tag.s = S_jsobj_Array THEN
      (IF Len(s.l) # 2 THEN Throw("", toString(s))
       ELSE IF ~IsAtom(v) THEN Throw("", toString(s))
       ELSE ArrRef(v.s))
    ELSE IF startsWith(tag.s, S_jsobj_) THEN parseLazyArgs(s.l, 2, ObjCls(substr(tag.s, 6), <<>>))
    ELSE Throw("", tag.s)
\* s.slice(1).map((a) => this.parseLazyValue(a)), line 527
parseLazyArgs(l, i, acc) ==
  IF i > Len(l) THEN acc
  ELSE LET a == parseLazyValue(l[i]) IN
       IF IsThrow(a) THEN a
       ELSE parseLazyArgs(l, i + 1, [acc EXCEPT !.args = Append(@, a)])

(***************************************************************************)
(* The chain decoders (lines 535-582, 613-702).  Each returns the closure  *)
(* it builds, as the tree of the values the closure captures.              *)
(***************************************************************************)
\* A closure is built once the parses it captures have returned: an exception
\* of one of them (val, then, els, in the order of the calls) is the outcome.
Leaf(val) == [type |-> "fn", k |-> "leaf", val |-> val]
LeafOf(val) == IF IsThrow(val) THEN val ELSE Leaf(val)
Ite1(key, then, els) ==
  IF IsThrow(then) THEN then ELSE IF IsThrow(els) THEN els
  ELSE [type |-> "fn", k |-> "ite", key |-> key, then |-> then, els |-> els]
Ite2(key, key2, then, els) ==
  IF IsThrow(then) THEN then ELSE IF IsThrow(els) THEN els
  ELSE [type |-> "fn", k |-> "ite", key |-> key, key2 |-> key2, then |-> then, els |-> els]

\* ['ite', ['=', 'x!0', { name }], { expr: 'then' }, { expr: 'els' }]
IteOneKey(n) ==
  PList(<<PLit(S_ite), PList(<<PLit(S_eq), PLit(S_x0), PName(n)>>),
          PExpr("then"), PExpr("els")>>)
\* ['ite', ['and', ['=', 'x!0', { name: n }], ['=', 'x!1', { name: n2 }]], then, els]
IteTwoKeys(n, n2) ==
  PList(<<PLit(S_ite),
          PList(<<PLit(S_and), PList(<<PLit(S_eq), PLit(S_x0), PName(n)>>),
                  PList(<<PLit(S_eq), PLit(S_x1), PName(n2)>>)>>),
          PExpr("then"), PExpr("els")>>)
\* ['_', 'as-array', { name: 'name' }]
AsArray == PList(<<PLit(S_us), PLit(S_as_array), PName("name")>>)

parseHeap(e) ==
  LET m == matchSExpr(e, AsArray) IN
  IF ~m.ok THEN Throw("expected (_ as-array $name)", <<>>)
  ELSE [type |-> "alias", name |-> m.c["name"].s]

RECURSIVE parseHeapMapping(_)
parseHeapMapping(e) ==
  LET iteMatch == matchSExpr(e, IteOneKey("loc")) IN
  IF iteMatch.ok
    THEN Ite1(iteMatch.c["loc"].s, parseHeapMapping(iteMatch.c["then"]),
              parseHeapMapping(iteMatch.c["els"]))
    ELSE LeafOf(parseLazyValue(e))

RECURSIVE parseArrayLengths(_)
parseArrayLengths(e) ==
  LET iteMatch == matchSExpr(e, IteOneKey("arr")) IN
  IF iteMatch.ok
    THEN Ite1(iteMatch.c["arr"].s, parseArrayLengths(iteMatch.c["then"]),
              parseArrayLengths(iteMatch.c["els"]))
  ELSE IF ~IsAtom(e) THEN Throw("expected num", <<>>)
  ELSE Leaf(e.s)

RECURSIVE parseArrayElems(_)
parseArrayElems(e) ==
  LET iteMatch == matchSExpr(e, IteTwoKeys("arr", "i")) IN
  IF iteMatch.ok
    THEN Ite2(iteMatch.c["arr"].s, parseInt(iteMatch.c["i"].s, 10),
              parseArrayElems(iteMatch.c["then"]), parseArrayElems(iteMatch.c["els"]))
    ELSE LeafOf(parseLazyValue(e))

RECURSIVE parseObjectProperties(_)
parseObjectProperties(e) ==
  LET iteMatch == matchSExpr(e, IteOneKey("obj"))
      asArrayMatch == matchSExpr(e, AsArray)
  IN
  IF iteMatch.ok
    THEN Ite1(iteMatch.c["obj"].s, parseObjectProperties(iteMatch.c["then"]),
              parseObjectProperties(iteMatch.c["els"]))
  ELSE IF ~asArrayMatch.ok THEN Throw("expected (_ as-array $name)", <<>>)
  ELSE Leaf(asArrayMatch.c["name"].s)

\* lines 633-641 and 682-690: the text of a key literal
keyString(prop) ==
  IF IsAtom(prop) THEN
    IF Len(prop.s) >= 2 /\ prop.s[1] = "\"" /\ prop.s[Len(prop.s)] = "\""
      THEN SomeStr(inner(prop.s)) ELSE NoStr
  ELSE parseStringValue(prop)

\* new Set([...]) of the listed strings, in order of first occurrence
RECURSIVE newSet(_, _)
newSet(list, acc) ==
  IF list = <<>> THEN acc
  ELSE newSet(Tail(list),
              IF \E j \in 1..Len(acc) : acc[j] = Head(list) THEN acc
              ELSE Append(acc, Head(list)))
SomeSet(s) == [type |-> "set", null |-> FALSE, s |-> s]
NoSet == [type |-> "set", null |-> TRUE, s |-> <<>>]

\* lines 643-657, once then and els have returned
propertySet(propStr, then, els) ==
  IF IsThrow(then) THEN then ELSE IF IsThrow(els) THEN els
  ELSE IF propStr.null THEN Throw("expected string in property mapping", <<>>)
  ELSE IF then.null THEN els
  ELSE IF els.null THEN SomeSet(newSet(<<propStr.s>> \o then.s, <<>>))
  ELSE SomeSet(newSet(<<propStr.s>> \o then.s \o els.s, <<>>))

RECURSIVE parsePropertyMapping(_)
parsePropertyMapping(e) ==
  LET iteMatch == matchSExpr(e, IteOneKey("prop")) IN
  IF iteMatch.ok
    THEN propertySet(keyString(iteMatch.c["prop"]),
                     parsePropertyMapping(iteMatch.c["then"]),
                     parsePropertyMapping(iteMatch.c["els"]))
  ELSE IF e = Atom(S_true) THEN SomeSet(<<>>)
  ELSE IF e = Atom(S_false) THEN NoSet
  ELSE Throw("expected (true)", <<>>)

\* lines 692-697, once then and els have returned
fieldClosure(arr, strValue, then, els) ==
  IF IsThrow(then) THEN then ELSE IF IsThrow(els) THEN els
  ELSE IF strValue.null THEN Throw("expected string in object field", <<>>)
  ELSE Ite2(arr, strValue.s, then, els)

RECURSIVE parseObjectFields(_)
parseObjectFields(e) ==
  LET iteMatch == matchSExpr(e, IteTwoKeys("obj", "s")) IN
  IF iteMatch.ok
    THEN fieldClosure(iteMatch.c["obj"].s, keyString(iteMatch.c["s"]),
                      parseObjectFields(iteMatch.c["then"]),
                      parseObjectFields(iteMatch.c["els"]))
    ELSE LeafOf(parseLazyValue(e))

\* The closures' bodies.
\* (loc) => loc.name === iteMatch.loc ? then(loc) : els(loc), and its like for
\* arrlength and objproperties
RECURSIVE keyOccurs(_, _)
keyOccurs(f, name) == f.k # "leaf" /\ (f.key = name \/ keyOccurs(f.els, name))
\* the same, but a test further in takes precedence over one further out
RECURSIVE applyOneKey_innermost(_, _)
applyOneKey_innermost(f, name) ==
  IF f.k = "leaf" THEN f.val
  ELSE IF name = f.key /\ ~keyOccurs(f.els, name) THEN applyOneKey_innermost(f.then, name)
  ELSE applyOneKey_innermost(f.els, name)
RECURSIVE applyOneKey(_, _)
applyOneKey(f, name) ==
  IF f.k = "leaf" THEN f.val
  ELSE IF name = f.key THEN applyOneKey(f.then, name) ELSE applyOneKey(f.els, name)
\* (arrRef, idx) => arrRef.name === arr && idx === i ? then(..) : els(..), and
\* its like for objfield
RECURSIVE applyTwoKeys(_, _, _)
applyTwoKeys(f, name, key2) ==
  IF f.k = "leaf" THEN f.val
  ELSE IF name = f.key /\ key2 = f.key2 THEN applyTwoKeys(f.then, name, key2)
  ELSE applyTwoKeys(f.els, name, key2)

applyHeapMapping(f, loc) == applyOneKey(f, loc.name)
\* the leaf closure of arrlength is (arrRef) => parseInt(smt, 10)
applyArrLengths(f, arrRef) == parseInt(applyOneKey(f, arrRef.name), 10)
\* idx === i is false when i is NaN
applyArrElems(f, arrRef, idx) ==
  applyTwoKeys(f, arrRef.name, Int_(idx))
applyObjProperties(f, objRef) == applyOneKey(f, objRef.name)
applyObjFields(f, objRef, prop) == applyTwoKeys(f, objRef.name, prop)

(***************************************************************************)
(* The tables of a Model under construction, as one record T whose fields  *)
(* are the class's fields.  A JavaScript object or sparse array used as a  *)
(* map is a function from its keys.                                        *)
(***************************************************************************)
EmptyMap == [x \in {} |-> x]
Put(map, key, val) == (key :> val) @@ map
Has(map, key) == key \in DOMAIN map

\* the field initialisers, lines 202-212
NewModel ==
  [type |-> "model",
   arrLengths |-> JSNull, arrElems |-> JSNull, objProperties |-> JSNull,
   objPropertyMappings |-> EmptyMap, objFields |-> JSNull,
   heapMappings |-> EmptyMap, vars |-> EmptyMap, locs |-> EmptyMap,
   heaps |-> EmptyMap, funs |-> EmptyMap, funDefaults |-> EmptyMap]

LazyFun(body) == [type |-> "fun", body |-> body]

\* lines 602-608: the argument conditions of one branch, from the idx-th
\* conjunct on; JSNull when the branch is given up (line 606)
RECURSIVE parseConds(_, _, _)
RECURSIVE pushCond(_, _, _, _)
parseConds(condList, idx, fullCond) ==
  IF idx >= Len(condList) THEN [type |-> "conds", l |-> fullCond]
  ELSE
    LET condMatch ==
          matchSExpr(condList[idx + 1],
                     PList(<<PLit(S_eq), PLit(S_xbang \o numToString(Int_(idx - 1))),
                             PExpr("val")>>))
    IN IF ~condMatch.ok THEN Throw("expected (= x!idx $val)", <<>>)
       ELSE pushCond(condList, idx, fullCond, tryParseSimpleValue(condMatch.c["val"]))
\* lines 606-607
pushCond(condList, idx, fullCond, matchVal) ==
  IF IsThrow(matchVal) THEN matchVal
  ELSE IF matchVal = JSNull THEN JSNull
  ELSE parseConds(condList, idx + 1, Append(fullCond, matchVal))

\* line 588: this.funDefaults[numArgs] = val
setDefault(T, numArgs, val) ==
  IF IsThrow(val) THEN val ELSE [T EXCEPT !.funDefaults = Put(@, numArgs, val)]

\* lines 597-599: funs[funcName] and funs[funcName][numArgs] are created when
\* they are not there
withFun(T, funcName, numArgs) ==
  LET funs1 == IF Has(T.funs, funcName) THEN T.funs ELSE Put(T.funs, funcName, EmptyMap)
      funcBlocks == IF Has(funs1[funcName], numArgs) THEN funs1[funcName]
                    ELSE Put(funs1[funcName], numArgs, LazyFun(<<>>))
  IN [T EXCEPT !.funs = Put(funs1, funcName, funcBlocks)]

\* the same, but with push for unshift
unshift_push(T, funcName, numArgs, fullCond, then) ==
  IF IsThrow(then) THEN then
  ELSE [T EXCEPT !.funs[funcName][numArgs].body = Append(@, [cond |-> fullCond, ret |-> then])]

\* line 610: fun.body.unshift({ cond: fullCond, ret: then })
unshift(T, funcName, numArgs, fullCond, then) ==
  IF IsThrow(then) THEN then
  ELSE [T EXCEPT !.funs[funcName][numArgs].body = <<[cond |-> fullCond, ret |-> then]>> \o @]

\* lines 600-610, with the entry of the function in place
addBranch(T, funcName, numArgs, fullCond, thenExpr) ==
  IF IsThrow(fullCond) THEN fullCond
  ELSE IF fullCond = JSNull THEN T
  ELSE unshift(T, funcName, numArgs, fullCond.l, parseLazyValue(thenExpr))

\* lines 592-610: one branch, after the rest of the chain has been processed
parseBranch(condList, thenExpr, numArgs, T) ==
  IF IsThrow(T) THEN T
  ELSE IF Len(condList) < 3 \/ condList[1] # Atom(S_and) THEN Throw("expected (and ...)", <<>>)
  ELSE
    LET funcMatch ==
          matchSExpr(condList[2],
                     PList(<<PLit(S_eq), PLit(S_x0), PList(<<PLit(S_jsfun), PName("func")>>)>>))
    IN IF ~funcMatch.ok THEN T        \* skip non-function value mappings
       ELSE addBranch(withFun(T, funcMatch.c["func"].s, numArgs), funcMatch.c["func"].s,
                      numArgs, parseConds(condList, 4, <<>>), thenExpr)

RECURSIVE parseFunctions(_, _, _)
parseFunctions(e, numArgs, T) ==
  LET iteMatch ==
        matchSExpr(e, PList(<<PLit(S_ite), PGroup("cond"), PExpr("then"), PExpr("els")>>))
  IN
  IF ~iteMatch.ok THEN setDefault(T, numArgs, parseLazyValue(e))
  ELSE parseBranch(iteMatch.c["cond"].l, iteMatch.c["then"], numArgs,
                   parseFunctions(iteMatch.c["els"], numArgs, T))  \* remaining functions first

\* ['define-fun', { name: 'name' }, { group: 'args' }, { expr: 'return' }, { expr: 'body' }]
DefineFun ==
  PList(<<PLit(S_define_fun), PName("name"), PGroup("args"), PExpr("return"), PExpr("body")>>)
\* ['define-fun', { name: 'name' }, [['x!0', sort]], ret, { expr: 'body' }]
DefineFunOfOne(sort, ret) ==
  PList(<<PLit(S_define_fun), PName("name"),
          PList(<<PList(<<PLit(S_x0), PLit(sort)>>)>>), PLit(ret), PExpr("body")>>)

\* one assignment `this.field = parse(..)`, which the parser's exception skips
Assign(T, field, val) == IF IsThrow(val) THEN val ELSE [T EXCEPT ![field] = val]
\* one assignment `this.field[key] = parse(..)`
AssignAt(T, field, key, val) ==
  IF IsThrow(val) THEN val ELSE [T EXCEPT ![field] = Put(@, key, val)]
\* line 272: this.heaps[idx] = this.parseHeap(m.body)
AssignHeap(T, idx, heap) ==
  IF IsThrow(heap) THEN heap ELSE [T EXCEPT !.heaps = Put(@, idx, heap.name)]
\* lines 299-300: this.objPropertyMappings[name] = mapping === null ? new Set() : mapping
AssignSet(T, name, mapping) ==
  IF IsThrow(mapping) THEN mapping
  ELSE [T EXCEPT !.objPropertyMappings = Put(@, name, IF mapping.null THEN <<>> ELSE mapping.s)]

\* lines 287-305: a definition whose name has no known prefix
parseResidual(d, name, T) ==
  LET heapMatch == matchSExpr(d, DefineFunOfOne(S_Loc, S_JSVal))
      propertiesMatch == matchSExpr(d, DefineFunOfOne(S_String, S_Bool))
  IN IF heapMatch.ok THEN
       AssignAt(T, "heapMappings", heapMatch.c["name"].s, parseHeapMapping(heapMatch.c["body"]))
     ELSE IF propertiesMatch.ok THEN
       AssignSet(T, propertiesMatch.c["name"].s, parsePropertyMapping(propertiesMatch.c["body"]))
     ELSE Throw("unexpected key: ", name)

\* lines 264-306: the definition named name with the body body
parseNamed(d, name, body, T) ==
  IF startsWith(name, S_v_) THEN AssignAt(T, "vars", substr(name, 2), parseLazyValue(body))
  ELSE IF startsWith(name, S_l_) THEN
    (IF ~IsAtom(body) THEN Throw("expected loc", <<>>)
     ELSE [T EXCEPT !.locs = Put(@, substr(name, 2), Loc(body.s))])
  ELSE IF startsWith(name, S_h_) THEN
    AssignHeap(T, parseInt(substr(name, 2), 10), parseHeap(body))
  ELSE IF name = S_arrlength THEN Assign(T, "arrLengths", parseArrayLengths(body))
  ELSE IF name = S_arrelems THEN Assign(T, "arrElems", parseArrayElems(body))
  ELSE IF name = S_objproperties THEN Assign(T, "objProperties", parseObjectProperties(body))
  ELSE IF name = S_objfield THEN Assign(T, "objFields", parseObjectFields(body))
  ELSE IF startsWith(name, S_c_) THEN T  \* skip class names
  ELSE IF startsWith(name, S_app) THEN
    parseFunctions(body, parseInt(substr(name, 3), 10), T)
  ELSE IF startsWith(name, S_pre) \/ startsWith(name, S_post)
          \/ startsWith(name, S_eff) \/ startsWith(name, S_call) THEN T  \* skip functions
  ELSE parseResidual(d, name, T)

parseDefinition(d, T) ==
  IF IsAtom(d) \/ Len(d.l) < 1 THEN Throw("expected define-fun", <<>>)
  ELSE
    LET m == matchSExpr(d, DefineFun) IN
    IF ~m.ok THEN T                        \* skip everything except for define-fun
    ELSE parseNamed(d, m.c["name"].s, m.c["body"], T)

(***************************************************************************)
(* Renderer to syntax (lines 117-149) and the syntax nodes hydrate builds. *)
(* The loc field of a node (nullLoc()) is left out.                        *)
(***************************************************************************)
\* id(name), from ./javascript
id(name) == [type |-> "Identifier", name |-> name]
Literal(value) == [type |-> "Literal", value |-> value]

RECURSIVE valueToJavaScript(_)
RECURSIVE valuesToJavaScript(_)
RECURSIVE propertiesToJavaScript(_)
valueToJavaScript(val) ==
  CASE val.type \in {"num", "bool", "str"} -> Literal(val)
    [] val.type = "null" -> Literal(Null)
    [] val.type = "undefined" -> Literal(Undefined)
    [] val.type = "fun" -> val.body
    [] val.type = "obj" ->
         [type |-> "ObjectExpression", properties |-> propertiesToJavaScript(val.v)]
    [] val.type = "obj-cls" ->
         [type |-> "NewExpression", callee |-> id(val.cls),
          args |-> valuesToJavaScript(val.args)]
    [] val.type = "arr" ->
         [type |-> "ArrayExpression", elements |-> valuesToJavaScript(val.elems)]
valuesToJavaScript(vals) ==
  IF vals = <<>> THEN <<>>
  ELSE <<valueToJavaScript(Head(vals))>> \o valuesToJavaScript(Tail(vals))
propertiesToJavaScript(props) ==
  IF props = <<>> THEN <<>>
  ELSE <<[key |-> Head(props).key, value |-> valueToJavaScript(Head(props).value)]>>
         \o propertiesToJavaScript(Tail(props))

\* obj[key] = value on an object held as its properties in creation order
objAssign(props, key, value) ==
  IF \E j \in 1..Len(props) : props[j].key = key
    THEN [j \in 1..Len(props) |->
            IF props[j].key = key THEN [key |-> key, value |-> value] ELSE props[j]]
    ELSE Append(props, [key |-> key, value |-> value])

\* the same, but for the first argument alone
condTest_firstOnly(cond, argIdx) ==
  [type |-> "BinaryExpression", operator |-> "===",
   left |-> id(<<"x", "_">> \o numToString(Int_(argIdx))),
   right |-> valueToJavaScript(cond[argIdx + 1])]

\* lines 729-745: x_0 === c0 && (x_1 === c1 && ...)
RECURSIVE condTest(_, _)
condTest(cond, argIdx) ==
  LET curr == [type |-> "BinaryExpression", operator |-> "===",
               left |-> id(<<"x", "_">> \o numToString(Int_(argIdx))),
               right |-> valueToJavaScript(cond[argIdx + 1])]
  IN IF argIdx + 1 = Len(cond) THEN curr
     ELSE [type |-> "LogicalExpression", operator |-> "&&",
           left |-> curr, right |-> condTest(cond, argIdx + 1)]
Return(argument) == [type |-> "ReturnStatement", argument |-> argument]
Block(body) == [type |-> "BlockStatement", body |-> body]
IfStatement(test, argument) ==
  [type |-> "IfStatement", test |-> test,
   consequent |-> Block(<<Return(argument)>>), alternate |-> Block(<<>>)]

\* [...Array(n)]: a RangeError unless n is a length
IsLength(n) == ~n.nan /\ n.n >= 0
\* [...Array(numArgs)].map((_, idx) => id(`x_${idx}`))
params(numArgs) ==
  [idx \in 1..numArgs.n |-> id(<<"x", "_">> \o numToString(Int_(idx - 1)))]

(***************************************************************************)
(* Hydration (lines 704-807).  depth counts the frames the runtime's stack *)
(* has left; running out of them is the runtime's RangeError.              *)
(***************************************************************************)
StackOverflow == ThrowNative("RangeError: Maximum call stack size exceeded")
InvalidLength == ThrowNative("RangeError: Invalid array length")

RECURSIVE hydrate(_, _, _)
RECURSIVE hydrateAll(_, _, _, _)
RECURSIVE hydrateElems(_, _, _, _, _, _)
RECURSIVE hydrateFields(_, _, _, _, _, _)
RECURSIVE hydrateBranches(_, _, _, _, _, _)

\* val.args.map((a) => this.hydrate(a))
hydrateAll(T, vals, depth, acc) ==
  IF vals = <<>> THEN [type |-> "list", l |-> acc]
  ELSE LET a == hydrate(T, Head(vals), depth) IN
       IF IsThrow(a) THEN a ELSE hydrateAll(T, Tail(vals), depth, Append(acc, a))

\* the same, but the element at index i is read at index i + 1
RECURSIVE hydrateElems_nextIndex(_, _, _, _, _, _)
hydrateElems_nextIndex(T, val, n, i, depth, acc) ==
  IF i >= n THEN [type |-> "arr", elems |-> acc]
  ELSE IF T.arrElems = JSNull THEN Throw("no arrelems", <<>>)
  ELSE LET elem == hydrate(T, applyArrElems(T.arrElems, val, i + 1), depth) IN
       IF IsThrow(elem) THEN elem
       ELSE hydrateElems_nextIndex(T, val, n, i + 1, depth, Append(acc, elem))

\* lines 789-792: the callback of map, for the indices i .. n-1
hydrateElems(T, val, n, i, depth, acc) ==
  IF i >= n THEN [type |-> "arr", elems |-> acc]
  ELSE IF T.arrElems = JSNull THEN Throw("no arrelems", <<>>)
  ELSE LET elem == hydrate(T, applyArrElems(T.arrElems, val, i), depth) IN
       IF IsThrow(elem) THEN elem
       ELSE hydrateElems(T, val, n, i + 1, depth, Append(acc, elem))

\* the same, but the field names are taken last to first
RECURSIVE hydrateFields_backwards(_, _, _, _, _, _)
hydrateFields_backwards(T, val, keys, i, depth, obj) ==
  IF i > Len(keys) THEN [type |-> "obj", v |-> obj]
  ELSE LET key == keys[Len(keys) + 1 - i]
           field == hydrate(T, applyObjFields(T.objFields, val, key), depth)
       IN IF IsThrow(field) THEN field
          ELSE hydrateFields_backwards(T, val, keys, i + 1, depth, objAssign(obj, key, field))

\* lines 800-802: the loop over the alias's field names, from the i-th on
hydrateFields(T, val, keys, i, depth, obj) ==
  IF i > Len(keys) THEN [type |-> "obj", v |-> obj]
  ELSE LET field == hydrate(T, applyObjFields(T.objFields, val, keys[i]), depth) IN
       IF IsThrow(field) THEN field
       ELSE hydrateFields(T, val, keys, i + 1, depth, objAssign(obj, keys[i], field))

\* lines 723-766: the statements of the body and the value of the last return
hydrateBranches(T, branches, i, depth, body, defaultVal) ==
  IF i > Len(branches) THEN
    LET last == IF defaultVal = JSNull THEN ThrowNative("TypeError")
                ELSE hydrate(T, defaultVal, depth)
    IN IF IsThrow(last) THEN last
       ELSE [type |-> "stmts", body |-> Append(body, Return(valueToJavaScript(last)))]
  ELSE IF Len(branches[i].cond) = 0
    THEN hydrateBranches(T, branches, i + 1, depth, body, branches[i].ret)
  ELSE LET ret == hydrate(T, branches[i].ret, depth) IN
       IF IsThrow(ret) THEN ret
       ELSE hydrateBranches(T, branches, i + 1, depth,
              Append(body, IfStatement(condTest(branches[i].cond, 0), valueToJavaScript(ret))),
              defaultVal)

FunctionExpression(ps, body) ==
  [type |-> "FunctionExpression", id |-> JSNull, params |-> ps,
   requires |-> <<>>, ensures |-> <<>>, body |-> Block(body), freeVars |-> <<>>]

\* the only key of funcBlocks, as Object.keys gives it and parseInt reads it
onlyArity(funcBlocks) ==
  parseInt(numToString(CHOOSE key \in DOMAIN funcBlocks : TRUE), 10)

hydrate(T, val, depth) ==
  IF depth = 0 THEN StackOverflow
  ELSE CASE val.type = "obj-cls" ->
         LET args == hydrateAll(T, val.args, depth - 1, <<>>) IN
         IF IsThrow(args) THEN args ELSE ObjCls(val.cls, args.l)
    [] val.type = "fun-ref" ->
         IF Has(T.funs, val.name) THEN
           LET funcBlocks == T.funs[val.name]
               numArgs == onlyArity(funcBlocks)
               fun == funcBlocks[numArgs]
               defaultVal == IF Has(T.funDefaults, numArgs) THEN T.funDefaults[numArgs]
                             ELSE JSNull
               stmts == hydrateBranches(T, fun.body, 1, depth - 1, <<>>, defaultVal)
           IN IF Cardinality(DOMAIN funcBlocks) # 1
                THEN Throw("no support for variable argument functions", <<>>)
              ELSE IF IsThrow(stmts) THEN stmts
              ELSE IF ~IsLength(numArgs) THEN InvalidLength
              ELSE [type |-> "fun", body |-> FunctionExpression(params(numArgs), stmts.body)]
         ELSE [type |-> "fun", body |-> FunctionExpression(<<>>, <<>>)]
    [] val.type = "arr-ref" ->
         IF T.arrLengths = JSNull THEN Throw("no arrlength", <<>>)
         ELSE LET n == applyArrLengths(T.arrLengths, val) IN
              IF ~IsLength(n) THEN InvalidLength
              ELSE hydrateElems(T, val, n.n, 0, depth - 1, <<>>)
    [] val.type = "obj-ref" ->
         IF T.objProperties = JSNull THEN Throw("no objproperties", <<>>)
         ELSE IF T.objFields = JSNull THEN Throw("no objfields", <<>>)
         ELSE LET objAlias == applyObjProperties(T.objProperties, val) IN
              IF ~Has(T.objPropertyMappings, objAlias) THEN Throw("no mapping for ", objAlias)
              ELSE hydrateFields(T, val, T.objPropertyMappings[objAlias], 1, depth - 1, <<>>)
    [] OTHER -> val

(***************************************************************************)
(* The public operations (lines 214-250)                                   *)
(***************************************************************************)
\* the frames hydrate may use before the runtime gives up
MaxDepth == 8

\* a FreeVar: a plain name, or a location name with a heap index
VarName(name) == [kind |-> "string", name |-> name]
HeapVar(name, heap) == [kind |-> "loc", name |-> name, heap |-> heap]

\* the same, but every generation is read as generation 0
valueOf_generation0(T, name) ==
  IF name.kind = "string" THEN
    IF ~Has(T.vars, name.name) THEN Undefined
    ELSE hydrate(T, T.vars[name.name], MaxDepth)
  ELSE
    IF ~Has(T.locs, name.name) THEN Throw("no such loc ", name.name)
    ELSE IF ~Has(T.heaps, Int_(0)) \/ ~Has(T.heapMappings, T.heaps[Int_(0)])
      THEN Throw("no such heap ", numToString(name.heap))
    ELSE hydrate(T, applyHeapMapping(T.heapMappings[T.heaps[Int_(0)]], T.locs[name.name]),
                 MaxDepth)

valueOf(T, name) ==
  IF name.kind = "string" THEN
    IF ~Has(T.vars, name.name) THEN Undefined
    ELSE hydrate(T, T.vars[name.name], MaxDepth)
  ELSE
    IF ~Has(T.locs, name.name) THEN Throw("no such loc ", name.name)
    ELSE IF ~Has(T.heaps, name.heap) \/ ~Has(T.heapMappings, T.heaps[name.heap])
      THEN Throw("no such heap ", numToString(name.heap))
    ELSE hydrate(T, applyHeapMapping(T.heapMappings[T.heaps[name.heap]], T.locs[name.name]),
                 MaxDepth)

variables(T) == [type |-> "vars", v |-> DOMAIN T.vars \cup DOMAIN T.locs]
mutableVariables(T) == [type |-> "vars", v |-> DOMAIN T.locs]

\* line 217: the statement `if (..) this.modelError(smt2.trim());` builds the
\* exception and drops it; the statement completes normally either way.
errorMarkerStatement(smt2) ==
  IF startsWith(trim(smt2), S_error_marker)
    THEN [type |-> "normal", dropped |-> modelError("", trim(smt2))]
    ELSE [type |-> "normal", dropped |-> NoError]

\* lines 218-226: the parse of the text and the checks of its result
checkData(text, r) ==
  IF ~r.ok THEN Throw("<parser's message>", <<>>) @@ [parsed |-> TRUE]
  ELSE IF IsAtom(r.e) THEN Throw("", r.e.s) @@ [parsed |-> TRUE]
  ELSE IF Len(r.e.l) < 2 THEN Throw("", text) @@ [parsed |-> TRUE]
  ELSE IF r.e.l[1] # Atom(S_model) THEN Throw("", text) @@ [parsed |-> TRUE]
  ELSE [type |-> "normal", data |-> r.e, parsed |-> TRUE]
\* lines 214-226: the constructor up to the loop over the definitions.
\* parsed tells whether parseSExpr was called.
afterMarker(text, smt2, marker) ==
  IF IsThrow(marker) THEN marker @@ [parsed |-> FALSE]
  ELSE checkData(text, parseSExpr(trim(smt2)))
constructorHead(text) ==
  afterMarker(text, substr(text, 3), errorMarkerStatement(substr(text, 3)))

NoQuery == [kind |-> "none"]
NoResult == [type |-> "none"]
NoData == Atom(<<>>)

(***************************************************************************)
(* Solver output: the expressions the encoder's naming convention yields   *)
(***************************************************************************)
A(s) == Atom(s)
DefFun(name, args, sort, body) ==
  List(<<A(S_define_fun), A(name), List(args), A(sort), body>>)
IteExpr(cond, then, els) == List(<<A(S_ite), cond, then, els>>)
EqExpr(a, b) == List(<<A(S_eq), a, b>>)
AndExpr(conjuncts) == List(<<A(S_and)>> \o conjuncts)
AsArrayExpr(name) == List(<<A(S_us), A(S_as_array), A(name)>>)
JsInt(n) == List(<<A(S_jsint), A(numToString(Int_(n)))>>)
JsObj(name) == List(<<A(S_jsobj), A(name)>>)
JsArr(name) == List(<<A(S_jsobj_Array), A(name)>>)
JsFun(name) == List(<<A(S_jsfun), A(name)>>)
Quoted(s) == A(<<"\"">> \o s \o <<"\"">>)
X(i) == A(S_xbang \o numToString(Int_(i)))
Key1(key) == EqExpr(X(0), key)
Key2(key, key2) == AndExpr(<<EqExpr(X(0), key), EqExpr(X(1), key2)>>)
OneArg(sort) == <<List(<<X(0), A(sort)>>)>>
ModelExpr(defs) == List(<<A(S_model)>> \o defs)
\* the text the solver prints: the tag, then the model
SatText(defs) == <<"s", "a", "t">> \o printSExpr(ModelExpr(defs))

\* names the encoder and the solver use
N_a == <<"a">>
N_o == <<"o">>
N_c == <<"c">>
N_f == <<"f">>
N_g == <<"g">>
N_x == <<"x">>
N_y == <<"y">>
N_Arr0 == <<"A", "r", "r", "!", "0">>
N_Arr1 == <<"A", "r", "r", "!", "1">>
N_Obj0 == <<"O", "b", "j", "!", "0">>
N_Obj1 == <<"O", "b", "j", "!", "1">>
N_Loc0 == <<"L", "o", "c", "!", "0">>
N_Loc1 == <<"L", "o", "c", "!", "1">>
N_kh == <<"k", "!", "h">>
N_kp == <<"k", "!", "p">>
N_kq == <<"k", "!", "q">>
N_Heap == <<"H", "e", "a", "p">>
N_Int == <<"I", "n", "t">>
N_Pair == <<"P", "a", "i", "r">>

\* all right-nested chains of at most n tests over the given tests and leaves
RECURSIVE Chains(_, _, _)
Chains(Tests, Leaves, n) ==
  IF n = 0 THEN Leaves
  ELSE Leaves \cup {IteExpr(t, th, e) : t \in Tests, th \in Leaves,
                                        e \in Chains(Tests, Leaves, n - 1)}

\* data.slice(1).forEach((s) => this.parseDefinition(s)), line 227
RECURSIVE parseDefinitions(_, _)
parseDefinitions(defs, T) ==
  IF defs = <<>> \/ IsThrow(T) THEN T
  ELSE parseDefinitions(Tail(defs), parseDefinition(Head(defs), T))

\* line 227 and the return of the constructor
constructed(d, T) ==
  IF IsThrow(T) THEN T @@ [parsed |-> TRUE, data |-> d]
  ELSE [type |-> "normal", model |-> T, parsed |-> TRUE, data |-> d]
definitionsOf(head) ==
  IF IsThrow(head) THEN head
  ELSE constructed(head.data, parseDefinitions(Tail(head.data.l), NewModel))
\* new Model(text): the object built, or the exception thrown
constructor(text) == definitionsOf(constructorHead(text))

(***************************************************************************)
(* The inputs                                                              *)
(***************************************************************************)
MaxChain == 2       \* tests in a generated chain
MaxMissing == 1     \* definitions left out of the reference model
MaxBranches == 2    \* branches in a generated application table

\* 1. Texts around the tag and the error marker
Sat == <<"s", "a", "t">>
TextBodies ==
  { printSExpr(List(<<A(<<"e", "r", "r", "o", "r">>), Quoted(<<"m", "s", "g">>)>>)),
    printSExpr(List(<<A(<<"e", "r", "r", "o", "r">>), A(N_x), A(N_y)>>)),
    printSExpr(List(<<A(<<"e", "r", "r", "o", "r", "s">>)>>)),
    <<"(">> \o S_model,
    <<"(", " ">> \o printSExpr(A(<<"e", "r", "r", "o", "r">>)) \o <<")">>,
    printSExpr(ModelExpr(<<>>)),
    printSExpr(ModelExpr(<<DefFun(S_v_ \o N_a, <<>>, S_JSVal, A(S_jsnull))>>)),
    printSExpr(List(<<A(N_x), A(N_y)>>)),
    S_model,
    <<>> }
TextInputs ==
  { Sat \o lead \o body \o trail :
      lead \in {<<>>, <<" ">>, <<"\n">>}, body \in TextBodies, trail \in {<<>>, <<"\n">>} }

\* 2. One table, defined by a generated chain
Tests1(names) == {Key1(A(n)) : n \in names}
Tests2(names, keys) == {Key2(A(n), k) : n \in names, k \in keys}
ChainDefs ==
  {DefFun(S_arrlength, OneArg(N_Int), N_Int, c) :
     c \in Chains(Tests1({N_Arr0, N_Arr1}), {A(<<"1">>), A(<<"2">>)}, MaxChain)}
  \cup {DefFun(S_objproperties, OneArg(N_Int), N_Int, c) :
     c \in Chains(Tests1({N_Obj0, N_Obj1}), {AsArrayExpr(N_kp), AsArrayExpr(N_kq)}, MaxChain)}
  \cup {DefFun(N_kh, OneArg(S_Loc), S_JSVal, c) :
     c \in Chains(Tests1({N_Loc0, N_Loc1}), {JsInt(1), A(S_jsnull)}, MaxChain)}
  \cup {DefFun(S_arrelems, OneArg(N_Int), S_JSVal, c) :
     c \in Chains(Tests2({N_Arr0, N_Arr1}, {A(<<"0">>)}) \cup Tests2({N_Arr0}, {A(<<"1">>)}),
                  {JsInt(1), A(S_jsnull)}, MaxChain)}
  \cup {DefFun(S_objfield, OneArg(N_Int), S_JSVal, c) :
     c \in Chains(Tests2({N_Obj0, N_Obj1}, {Quoted(N_x)}) \cup Tests2({N_Obj0}, {Quoted(N_y)}),
                  {JsInt(1), A(S_jsnull)}, MaxChain)}
ChainModels == {<<d>> : d \in ChainDefs}

\* 3. The reference model: an array, an object, a class instance and a heap,
\*    with some definitions left out, in either order
ArrLengthBodies ==
  << IteExpr(Key1(A(N_Arr0)), A(<<"2">>), IteExpr(Key1(A(N_Arr1)), A(<<"1">>), A(<<"0">>))),
     A(<<"0">>) >>
HeapAliases == <<N_kh, N_kq>>
Reference(lengths, alias) ==
  << DefFun(S_v_ \o N_a, <<>>, S_JSVal, A(N_Arr0)),
     DefFun(S_v_ \o N_o, <<>>, S_JSVal, JsObj(N_Obj0)),
     DefFun(S_v_ \o N_c, <<>>, S_JSVal, List(<<A(S_jsobj_ \o N_Pair), JsArr(N_Arr1), JsInt(7)>>)),
     DefFun(S_l_ \o N_x, <<>>, S_Loc, A(N_Loc0)),
     DefFun(S_h_ \o <<"0">>, <<>>, N_Heap, AsArrayExpr(HeapAliases[alias])),
     DefFun(N_kh, OneArg(S_Loc), S_JSVal,
            IteExpr(Key1(A(N_Loc0)), JsArr(N_Arr0), A(S_jsundefined))),
     DefFun(S_arrlength, OneArg(N_Int), N_Int, ArrLengthBodies[lengths]),
     DefFun(S_arrelems, OneArg(N_Int), S_JSVal,
            IteExpr(Key2(A(N_Arr0), A(<<"0">>)), JsInt(1),
            IteExpr(Key2(A(N_Arr0), A(<<"1">>)), JsArr(N_Arr1),
            IteExpr(Key2(A(N_Arr1), A(<<"0">>)), JsInt(5), A(S_jsnull))))),
     DefFun(S_objproperties, OneArg(N_Int), N_Int,
            IteExpr(Key1(A(N_Obj0)), AsArrayExpr(N_kp), AsArrayExpr(N_kq))),
     DefFun(S_objfield, OneArg(N_Int), S_JSVal,
            IteExpr(Key2(A(N_Obj0), Quoted(N_x)), JsInt(1),
            IteExpr(Key2(A(N_Obj0), Quoted(N_y)), JsArr(N_Arr1), A(S_jsnull)))),
     DefFun(N_kp, OneArg(S_String), S_Bool,
            IteExpr(Key1(Quoted(N_x)), A(S_true),
            IteExpr(Key1(Quoted(N_y)), A(S_true), A(S_false)))) >>
\* definitions whose index is not a number, and other oddities
ExtraDefs ==
  { DefFun(S_h_ \o N_x, <<>>, N_Heap, AsArrayExpr(N_kh)),
    DefFun(S_h_, <<>>, N_Heap, AsArrayExpr(N_kh)),
    DefFun(S_app \o N_x, <<>>, S_JSVal, JsInt(3)),
    DefFun(S_app, <<>>, S_JSVal, A(S_jsnull)),
    DefFun(S_c_ \o N_Pair, <<>>, N_Int, A(<<"0">>)),
    DefFun(S_pre \o N_f, <<>>, S_Bool, A(S_true)),
    DefFun(N_kq, <<>>, N_Int, A(<<"0">>)),
    List(<<A(<<"d", "e", "c", "l", "a", "r", "e">>), A(N_x)>>),
    List(<<A(S_define_fun), A(N_kq), List(<<>>), A(N_Int)>>),
    A(N_x) }
Without(defs, missing) ==
  LET keep(i) == i \notin missing
      RECURSIVE pick(_)
      pick(i) == IF i > Len(defs) THEN <<>>
                 ELSE (IF keep(i) THEN <<defs[i]>> ELSE <<>>) \o pick(i + 1)
  IN pick(1)
Reversed(s) == [i \in 1..Len(s) |-> s[Len(s) + 1 - i]]
ScenarioModels ==
  LET base == { Without(Reference(lengths, alias), missing) :
                  lengths \in 1..2, alias \in 1..2,
                  missing \in {m \in SUBSET (1..11) : Cardinality(m) <= MaxMissing} }
  IN base \cup {Reversed(d) : d \in base}
     \cup {Append(Reference(1, 1), e) : e \in ExtraDefs}
     \cup {<<e>> \o Reference(1, 1) : e \in ExtraDefs}

\* 4. Application tables: a generated chain for one argument, and a fixed
\*    table for two
ThisCond == EqExpr(X(1), A(S_jsundefined))
HeapCond == EqExpr(X(2), A(<<"0">>))
ArgConds ==
  { <<>>,
    <<EqExpr(X(3), JsInt(1))>>,
    <<EqExpr(X(3), JsInt(2))>>,
    <<EqExpr(X(3), JsObj(N_Obj0))>>,
    <<EqExpr(X(4), JsInt(1))>>,
    <<EqExpr(X(3), List(<<A(S_jsint), A(N_x)>>))>> }
BranchConds ==
  { AndExpr(<<EqExpr(X(0), JsFun(N_f)), ThisCond, HeapCond>> \o conds) : conds \in ArgConds }
  \cup { AndExpr(<<EqExpr(X(0), JsFun(N_g)), ThisCond, HeapCond, EqExpr(X(3), JsInt(1))>>),
          AndExpr(<<EqExpr(X(0), JsFun(N_g)), ThisCond, HeapCond, EqExpr(X(3), JsObj(N_Obj0))>>),
          AndExpr(<<EqExpr(X(0), JsInt(5)), ThisCond, HeapCond>>) }
\* the chain of the given branch conditions; the i-th branch yields 10 * i
RECURSIVE AppChain(_, _)
AppChain(conds, i) ==
  IF i > Len(conds) THEN JsInt(0)
  ELSE IteExpr(conds[i], JsInt(10 * i), AppChain(conds, i + 1))
App2 ==
  DefFun(S_app \o <<"2">>, <<>>, S_JSVal,
         IteExpr(AndExpr(<<EqExpr(X(0), JsFun(N_g)), ThisCond, HeapCond,
                           EqExpr(X(3), JsInt(1)), EqExpr(X(4), JsInt(2))>>),
                 JsInt(99), JsInt(98)))
FunctionModels ==
  LET app1 == { DefFun(S_app \o <<"1">>, <<>>, S_JSVal, AppChain(conds, 1)) :
                  conds \in UNION {[1..n -> BranchConds] : n \in 0..MaxBranches} }
      vf == DefFun(S_v_ \o N_f, <<>>, S_JSVal, JsFun(N_f))
      vg == DefFun(S_v_ \o N_g, <<>>, S_JSVal, JsFun(N_g))
  IN {<<vf, vg, d>> : d \in app1} \cup {<<vf, vg, d, App2>> : d \in app1}

\* 5. Tables whose numbers are no numbers: a length that is no numeral, an
\*    application table without an arity
MalformedModels ==
  { << DefFun(S_v_ \o N_a, <<>>, S_JSVal, A(N_Arr0)),
       DefFun(S_arrlength, OneArg(N_Int), N_Int, A(N_x)) >>,
    << DefFun(S_v_ \o N_f, <<>>, S_JSVal, JsFun(N_f)),
       DefFun(S_app, <<>>, S_JSVal,
              IteExpr(AndExpr(<<EqExpr(X(0), JsFun(N_f)), ThisCond, HeapCond>>),
                      JsInt(10), JsInt(0))) >> }

\* 6. Two heap definitions of different names whose indices are no numbers
CollidingModels ==
  { << DefFun(S_l_ \o N_x, <<>>, S_Loc, A(N_Loc0)),
       DefFun(S_h_ \o N_x, <<>>, N_Heap, AsArrayExpr(N_kh)),
       DefFun(S_h_ \o N_y, <<>>, N_Heap, AsArrayExpr(N_kq)),
       DefFun(N_kh, OneArg(S_Loc), S_JSVal,
              IteExpr(Key1(A(N_Loc0)), JsInt(1), A(S_jsundefined))) >> }

\* 7. Variables bound to an array and an object that no table names
UnresolvedModels ==
  { << DefFun(S_v_ \o N_a, <<>>, S_JSVal, A(N_Arr0)),
       DefFun(S_v_ \o N_o, <<>>, S_JSVal, JsObj(N_Obj1)),
       DefFun(S_arrlength, OneArg(N_Int), N_Int,
              IteExpr(Key1(A(N_Arr1)), A(<<"1">>), A(<<"2">>))),
       DefFun(S_arrelems, OneArg(N_Int), S_JSVal,
              IteExpr(Key2(A(N_Arr1), A(<<"0">>)), JsInt(5), A(S_jsnull))),
       DefFun(S_objproperties, OneArg(N_Int), N_Int,
              IteExpr(Key1(A(N_Obj0)), AsArrayExpr(N_kq), AsArrayExpr(N_kp))),
       DefFun(S_objfield, OneArg(N_Int), S_JSVal,
              IteExpr(Key2(A(N_Obj0), Quoted(N_x)), JsInt(1), A(S_jsnull))),
       DefFun(N_kp, OneArg(S_String), S_Bool,
              IteExpr(Key1(Quoted(N_x)), A(S_true), A(S_false))) >> }

\* 8. A variable bound to a string: literals with escapes, concatenations,
\*    characters of a code, and forms that are not decoded
Esc(hi, lo) == <<"\\", "x", hi, lo>>
StringLiterals ==
  { Quoted(<<>>), Quoted(<<"a", "b">>),
    Quoted(Esc("4", "1") \o Esc("4", "2")),
    Quoted(<<"a">> \o Esc("4", "1") \o <<"b">>),
    Quoted(Esc("4", "a")), Quoted(Esc("4", "A")), Quoted(Esc("a", "0") \o <<"z">>),
    Quoted(<<"\\", "x", "4">>), Quoted(<<"\\", "y", "4", "1">>) }
StringParts ==
  StringLiterals
  \cup { List(<<A(S_seq_unit), List(<<A(S_char), A(S_hash_x \o <<"4", "2">>)>>)>>),
         List(<<A(S_str_from_code), A(<<"6", "5">>)>>),
         List(<<A(S_str_at), Quoted(<<"a", "b">>), A(<<"0">>)>>) }
StringExprs ==
  StringParts
  \cup { List(<<A(S_str_concat), l, r>>) :
           l \in StringParts,
           r \in { Quoted(<<"a", "b">>), Quoted(Esc("4", "1") \o Esc("4", "2")),
                   List(<<A(S_str_from_code), A(<<"6", "5">>)>>),
                   List(<<A(S_str_at), Quoted(<<"a", "b">>), A(<<"0">>)>>) } }
  \cup { List(<<A(S_str_concat), Quoted(<<"a">>),
                List(<<A(S_str_concat), Quoted(<<"b">>), Quoted(Esc("4", "1"))>>),
                Quoted(<<"c">>)>>),
         List(<<A(S_str_concat)>>) }
StringModels ==
  { << DefFun(S_v_ \o N_a, <<>>, S_JSVal, List(<<A(S_jsstr), e>>)) >> : e \in StringExprs }

\* 9. One property set: boolean chains over the keys "x" and "y", with
\*    repeated keys and chains nested in either branch
BoolLeaves == {A(S_true), A(S_false)}
BoolChains1 ==
  BoolLeaves
  \cup { IteExpr(Key1(Quoted(k)), t, e) : k \in {N_x, N_y}, t \in BoolLeaves, e \in BoolLeaves }
BoolChains2 == { IteExpr(Key1(Quoted(N_x)), t, e) : t \in BoolChains1, e \in BoolChains1 }
PropertyModels ==
  { << DefFun(N_kp, OneArg(S_String), S_Bool, c) >> : c \in BoolChains1 \cup BoolChains2 }

Inputs ==
  TextInputs
  \cup {SatText(defs) : defs \in ChainModels \cup ScenarioModels \cup FunctionModels
                                \cup MalformedModels \cup CollidingModels
                                \cup UnresolvedModels \cup StringModels
                                \cup PropertyModels}

\* the queries a caller makes
Queries ==
  {VarName(n) : n \in {N_a, N_o, N_c, N_f, N_g, N_y}}
  \cup {HeapVar(N_x, Int_(0)), HeapVar(N_x, Int_(1)), HeapVar(N_y, Int_(0)),
        HeapVar(N_x, NaN)}

(***************************************************************************)
(* The state machine                                                       *)
(***************************************************************************)
Init ==
  /\ smt \in Inputs
  /\ pc = "new"
  /\ parsed = FALSE
  /\ data = NoData
  /\ model = NewModel
  /\ thrown = NoError
  /\ query = NoQuery
  /\ result = NoResult

\* the constructor's outcome r becomes the state
Constructed(r) ==
  /\ parsed' = r.parsed
  /\ IF IsThrow(r)
       THEN /\ pc' = "failed"
            /\ thrown' = r.error
            /\ data' = IF r.parsed /\ "data" \in DOMAIN r THEN r.data ELSE data
            /\ UNCHANGED model
       ELSE /\ pc' = "ready"
            /\ model' = r.model
            /\ data' = r.data
            /\ UNCHANGED thrown

\* new Model(smt)
Construct ==
  /\ pc = "new"
  /\ Constructed(constructor(smt))
  /\ UNCHANGED <<smt, query, result>>

\* the same, but the value hydrated for a variable is kept in its place
ValueOf_memoized ==
  /\ pc = "ready"
  /\ \E name \in Queries :
       /\ query' = name
       /\ result' = valueOf(model, name)
       /\ model' = IF name.kind = "string" /\ Has(model.vars, name.name)
                       /\ ~IsThrow(valueOf(model, name))
                    THEN [model EXCEPT !.vars = Put(@, name.name, valueOf(model, name))]
                    ELSE model
  /\ UNCHANGED <<smt, pc, parsed, data, thrown>>

\* model.valueOf(name)
ValueOf ==
  /\ pc = "ready"
  /\ \E name \in Queries :
       /\ query' = name
       /\ result' = valueOf(model, name)
  /\ UNCHANGED <<smt, pc, parsed, data, model, thrown>>

\* model.variables()
Variables ==
  /\ pc = "ready"
  /\ query' = [kind |-> "variables"]
  /\ result' = variables(model)
  /\ UNCHANGED <<smt, pc, parsed, data, model, thrown>>

\* model.mutableVariables()
MutableVariables ==
  /\ pc = "ready"
  /\ query' = [kind |-> "mutableVariables"]
  /\ result' = mutableVariables(model)
  /\ UNCHANGED <<smt, pc, parsed, data, model, thrown>>

Next == Construct \/ ValueOf \/ Variables \/ MutableVariables

Spec == Init /\ [][Next]_vars_all

(***************************************************************************)
(* What the text says, read off the parsed text (data) alone               *)
(***************************************************************************)
\* the text the constructor reads after the tag, trimmed
Remaining == trim(substr(smt, 3))
\* the definitions of the text, in the order of the text
Defs == IF IsList(data) /\ Len(data.l) >= 1 THEN Tail(data.l) ELSE <<>>
\* d is (define-fun name (args) sort body)
IsDefinition(d) ==
  IsList(d) /\ Len(d.l) = 5 /\ d.l[1] = Atom(S_define_fun) /\ IsAtom(d.l[2]) /\ IsList(d.l[3])
DefsNamed(name) == {i \in 1..Len(Defs) : IsDefinition(Defs[i]) /\ Defs[i].l[2].s = name}
Largest(S) == CHOOSE i \in S : \A j \in S : j <= i
Smallest(S) == CHOOSE i \in S : \A j \in S : i <= j
\* the body of the last definition of that name
BodyOf(name) == Defs[Largest(DefsNamed(name))].l[5]

\* e is (= x literal) for the argument named x
IsEq(e, x) ==
  IsList(e) /\ Len(e.l) = 3 /\ e.l[1] = Atom(S_eq) /\ e.l[2] = Atom(x) /\ IsAtom(e.l[3])
\* c is (ite test then else) whose test compares keys arguments with literals
IsTest(c, keys) ==
  /\ IsList(c) /\ Len(c.l) = 4 /\ c.l[1] = Atom(S_ite)
  /\ IF keys = 1 THEN IsEq(c.l[2], S_x0)
     ELSE /\ IsList(c.l[2]) /\ Len(c.l[2].l) = 3 /\ c.l[2].l[1] = Atom(S_and)
          /\ IsEq(c.l[2].l[2], S_x0) /\ IsEq(c.l[2].l[3], S_x1)
\* the literals of the test, as the key values they stand for: a name; a name
\* and an index; a name and a field name
TestKey(c, kind) ==
  CASE kind = "name" -> <<c.l[2].l[3].s>>
    [] kind = "index" -> <<c.l[2].l[2].l[3].s, parseInt(c.l[2].l[3].l[3].s, 10)>>
    [] kind = "field" -> <<c.l[2].l[2].l[3].s, inner(c.l[2].l[3].l[3].s)>>
KeysOf(kind) == IF kind = "name" THEN 1 ELSE 2
\* the tests along the else-spine of a chain, outermost first, and its last else
RECURSIVE ChainTests(_, _)
ChainTests(c, kind) ==
  IF IsTest(c, KeysOf(kind))
    THEN <<[key |-> TestKey(c, kind), leaf |-> c.l[3]]>> \o ChainTests(c.l[4], kind)
    ELSE <<>>
RECURSIVE ChainElse(_, _)
ChainElse(c, kind) == IF IsTest(c, KeysOf(kind)) THEN ChainElse(c.l[4], kind) ELSE c
\* every then-branch of the chain is a leaf
RECURSIVE RightNested(_, _)
RightNested(c, kind) ==
  IsTest(c, KeysOf(kind)) => (~IsTest(c.l[3], KeysOf(kind)) /\ RightNested(c.l[4], kind))
\* first match along the chain: the leaf of the outermost test whose literals
\* equal the lookup key, the last else when there is none
FirstLeaf(c, kind, lookup) ==
  LET tests == ChainTests(c, kind)
      hits == {i \in 1..Len(tests) : tests[i].key = lookup}
  IN IF hits = {} THEN ChainElse(c, kind) ELSE tests[Smallest(hits)].leaf

IsModelError(r) == IsThrow(r) /\ r.error.type = "unrecognized-model"

(***************************************************************************)
(* C1.  Constructing a Model from a text whose content after the tag,      *)
(* trimmed, begins with "(error" fails immediately, before the text is     *)
(* parsed, and the error's description embeds exactly that trimmed rest.   *)
(***************************************************************************)
C1_ErrorMarkerFailsImmediately ==
  (pc # "new" /\ startsWith(Remaining, S_error_marker))
    => (pc = "failed" /\ ~parsed /\ thrown = modelError("", Remaining))
\* a text with the error marker has been given to the constructor
C1_ErrorMarkerConstructed ==
  pc = "failed" /\ startsWith(Remaining, S_error_marker) /\ Len(Remaining) > Len(S_error_marker)

(***************************************************************************)
(* C2.  A query valueOf({name: n, heap: g}) with a generation index g on a *)
(* constructed Model fails with an unrecognized-model error if the text    *)
(* has no l_n definition, or no h_g definition, or no one-Loc-argument     *)
(* mapping definition named by the alias of h_g; otherwise it returns the  *)
(* hydration of the value the aliased chain yields for the location atom   *)
(* bound to n.  The order of h_g and the mapping in the text is immaterial.*)
(***************************************************************************)
IsHeapMappingDef(d) ==
  IsDefinition(d) /\ d.l[3] = List(OneArg(S_Loc)) /\ d.l[4] = Atom(S_JSVal)
MappingDefs(alias) == {i \in DefsNamed(alias) : IsHeapMappingDef(Defs[i])}
HeapDefName(g) == S_h_ \o numToString(g)
AliasOf(g) == BodyOf(HeapDefName(g)).l[3].s
HeapQuery == pc = "ready" /\ query.kind = "loc" /\ ~query.heap.nan
HeapQueryFails(n, g) ==
  \/ DefsNamed(S_l_ \o n) = {}
  \/ DefsNamed(HeapDefName(g)) = {}
  \/ MappingDefs(AliasOf(g)) = {}
HeapQueryValue(n, g) ==
  parseLazyValue(FirstLeaf(Defs[Largest(MappingDefs(AliasOf(g)))].l[5], "name",
                           <<BodyOf(S_l_ \o n).s>>))
C2_HeapQuery ==
  HeapQuery =>
    IF HeapQueryFails(query.name, query.heap) THEN IsModelError(result)
    ELSE result = hydrate(model, HeapQueryValue(query.name, query.heap), MaxDepth)
\* a heap query answered with an array through a forward reference: h_g comes
\* before the mapping it aliases
C2_ForwardReference ==
  /\ HeapQuery /\ ~HeapQueryFails(query.name, query.heap)
  /\ result.type = "arr"
  /\ Largest(DefsNamed(HeapDefName(query.heap))) < Largest(MappingDefs(AliasOf(query.heap)))

(***************************************************************************)
(* C3.  The lookup function decoded from a right-nested chain of key tests *)
(* (arrlength, objproperties, a heap mapping: one key; arrelems, objfield: *)
(* two keys) is total: for any key it returns the leaf of the outermost    *)
(* test whose literals equal the key, and the last else leaf when no test  *)
(* matches.  When a literal occurs in two tests, the outer one wins.       *)
(***************************************************************************)
N_z == <<"z">>
LookupNames == {N_Arr0, N_Arr1, N_Obj0, N_Obj1, N_Loc0, N_Loc1, N_kh}
LookupIndices == 0..MaxChain
LookupFields == {N_x, N_y, N_z}
Defines(name) == DefsNamed(name) # {}
MappingNames == {Defs[i].l[2].s : i \in {j \in 1..Len(Defs) : IsHeapMappingDef(Defs[j])}}
MappingBody(alias) == Defs[Largest(MappingDefs(alias))].l[5]
C3_ArrLengths ==
  (Defines(S_arrlength) /\ RightNested(BodyOf(S_arrlength), "name")) =>
    \A n \in LookupNames :
      applyArrLengths(model.arrLengths, ArrRef(n))
        = parseInt(FirstLeaf(BodyOf(S_arrlength), "name", <<n>>).s, 10)
C3_ObjProperties ==
  (Defines(S_objproperties) /\ RightNested(BodyOf(S_objproperties), "name")) =>
    \A n \in LookupNames :
      applyObjProperties(model.objProperties, ObjRef(n))
        = FirstLeaf(BodyOf(S_objproperties), "name", <<n>>).l[3].s
C3_HeapMappings ==
  \A alias \in MappingNames :
    RightNested(MappingBody(alias), "name") =>
      \A n \in LookupNames :
        applyHeapMapping(model.heapMappings[alias], Loc(n))
          = parseLazyValue(FirstLeaf(MappingBody(alias), "name", <<n>>))
C3_ArrElems ==
  (Defines(S_arrelems) /\ RightNested(BodyOf(S_arrelems), "index")) =>
    \A n \in LookupNames, i \in LookupIndices :
      applyArrElems(model.arrElems, ArrRef(n), i)
        = parseLazyValue(FirstLeaf(BodyOf(S_arrelems), "index", <<n, Int_(i)>>))
C3_ObjFields ==
  (Defines(S_objfield) /\ RightNested(BodyOf(S_objfield), "field")) =>
    \A n \in LookupNames, k \in LookupFields :
      applyObjFields(model.objFields, ObjRef(n), k)
        = parseLazyValue(FirstLeaf(BodyOf(S_objfield), "field", <<n, k>>))
C3_FirstMatchWins ==
  pc = "ready" =>
    C3_ArrLengths /\ C3_ObjProperties /\ C3_HeapMappings /\ C3_ArrElems /\ C3_ObjFields
\* a decoded one-key chain and a decoded two-key chain in which a literal
\* occurs in two tests with different leaves
TwiceTested(body, kind) ==
  LET tests == ChainTests(body, kind) IN
  \E i, j \in 1..Len(tests) :
    i < j /\ tests[i].key = tests[j].key /\ tests[i].leaf # tests[j].leaf
C3_SameLiteralTwice ==
  /\ pc = "ready"
  /\ \/ Defines(S_arrlength) /\ TwiceTested(BodyOf(S_arrlength), "name")
     \/ Defines(S_arrelems) /\ TwiceTested(BodyOf(S_arrelems), "index")

(***************************************************************************)
(* C4.  In a model that defines arrlength and arrelems, hydrating an array *)
(* reference r yields an array of exactly arrlength(r) elements whose      *)
(* element at each index i is hydrate(arrelems(r, i)), in index order;     *)
(* also when r is reached through a variable, an array element, an object  *)
(* field, a class-instance argument or a heap value.                       *)
(***************************************************************************)
ArrayNames == {N_Arr0, N_Arr1}
ObjectNames == {N_Obj0, N_Obj1}
\* the tables, as the text gives them
LengthOf(r) == parseInt(FirstLeaf(BodyOf(S_arrlength), "name", <<r>>).s, 10)
ElemOf(r, i) == parseLazyValue(FirstLeaf(BodyOf(S_arrelems), "index", <<r, Int_(i)>>))
AliasOfObject(r) == FirstLeaf(BodyOf(S_objproperties), "name", <<r>>).l[3].s
FieldOf(r, k) == parseLazyValue(FirstLeaf(BodyOf(S_objfield), "field", <<r, k>>))
\* the values already hydrated, put together: the first exception among them,
\* or the whole
AllOrThrow(vals, whole) ==
  LET bad == {j \in 1..Len(vals) : IsThrow(vals[j])} IN
  IF bad = {} THEN whole ELSE vals[Smallest(bad)]
ArrayOf(r) ==
  LET elems == [i \in 1..LengthOf(r).n |-> hydrate(model, ElemOf(r, i - 1), MaxDepth)]
  IN AllOrThrow(elems, [type |-> "arr", elems |-> elems])
\* the arrays within a hydrated value h are those of the lazy value it is of
RECURSIVE ArraysConform(_, _, _)
ArraysConform(lazy, h, fuel) ==
  IF fuel = 0 THEN TRUE
  ELSE CASE lazy.type = "arr-ref" ->
         /\ h.type = "arr"
         /\ Len(h.elems) = LengthOf(lazy.name).n
         /\ \A i \in 1..Len(h.elems) :
              ArraysConform(ElemOf(lazy.name, i - 1), h.elems[i], fuel - 1)
    [] lazy.type = "obj-ref" ->
         /\ h.type = "obj"
         /\ \A j \in 1..Len(h.v) :
              ArraysConform(FieldOf(lazy.name, h.v[j].key), h.v[j].value, fuel - 1)
    [] lazy.type = "obj-cls" ->
         /\ h.type = "obj-cls"
         /\ Len(h.args) = Len(lazy.args)
         /\ \A j \in 1..Len(h.args) : ArraysConform(lazy.args[j], h.args[j], fuel - 1)
    [] OTHER -> h = lazy
\* the lazy value a query starts from, as the text gives it
Answered ==
  /\ pc = "ready" /\ query.kind \in {"string", "loc"} /\ ~IsThrow(result)
  /\ IF query.kind = "string" THEN Defines(S_v_ \o query.name)
     ELSE ~query.heap.nan /\ ~HeapQueryFails(query.name, query.heap)
QueryRoot ==
  IF query.kind = "string" THEN parseLazyValue(BodyOf(S_v_ \o query.name))
  ELSE HeapQueryValue(query.name, query.heap)
C4_ArrayHydration ==
  (pc = "ready" /\ Defines(S_arrlength) /\ Defines(S_arrelems)) =>
    /\ \A r \in ArrayNames : hydrate(model, ArrRef(r), MaxDepth) = ArrayOf(r)
    /\ Answered => ArraysConform(QueryRoot, result, MaxDepth)
\* an array with an array for an element, reached through a heap value
C4_NestedArrayFromHeap ==
  /\ Answered /\ query.kind = "loc" /\ Defines(S_arrlength) /\ Defines(S_arrelems)
  /\ result.type = "arr" /\ Len(result.elems) = 2 /\ result.elems[2].type = "arr"

(***************************************************************************)
(* C5.  In a model that defines objproperties and objfield, hydrating an   *)
(* object reference r yields an object whose keys are exactly the field    *)
(* names registered for the alias objproperties(r), assigned in that set's *)
(* iteration order, and whose value at each key k is                       *)
(* hydrate(objfield(r, k)); with no field-name set registered for the      *)
(* alias, hydration fails with an unrecognized-model error.                *)
(***************************************************************************)
IsPropertiesDef(d) ==
  IsDefinition(d) /\ d.l[3] = List(OneArg(S_String)) /\ d.l[4] = Atom(S_Bool)
Registered(alias) == \E i \in DefsNamed(alias) : IsPropertiesDef(Defs[i])
ObjectOf(r) ==
  LET keys == model.objPropertyMappings[AliasOfObject(r)]
      fields == [j \in 1..Len(keys) |-> hydrate(model, FieldOf(r, keys[j]), MaxDepth)]
  IN AllOrThrow(fields, [type |-> "obj",
                         v |-> [j \in 1..Len(keys) |-> [key |-> keys[j], value |-> fields[j]]]])
C5_ObjectHydration ==
  (pc = "ready" /\ Defines(S_objproperties) /\ Defines(S_objfield)) =>
    \A r \in ObjectNames :
      IF Registered(AliasOfObject(r))
        THEN hydrate(model, ObjRef(r), MaxDepth) = ObjectOf(r)
        ELSE IsModelError(hydrate(model, ObjRef(r), MaxDepth))
\* an object of two fields has been returned, and another object's alias has
\* no field-name set
C5_ObjectOfTwoFields ==
  /\ pc = "ready" /\ Defines(S_objproperties) /\ Defines(S_objfield)
  /\ query = VarName(N_o) /\ result.type = "obj" /\ Len(result.v) = 2
  /\ result.v[1].key = N_x /\ result.v[2].key = N_y
  /\ ~Registered(AliasOfObject(N_Obj1))

(***************************************************************************)
(* C6.  Hydrating an array reference in a model that lacks the arrlength   *)
(* definition or the arrelems definition fails with an unrecognized-model  *)
(* error, whatever the length of the array (also when the length table     *)
(* yields 0 and the element table is absent).                              *)
(***************************************************************************)
ArrayQueried ==
  /\ pc = "ready" /\ query.kind = "string" /\ Defines(S_v_ \o query.name)
  /\ QueryRoot.type = "arr-ref"
C6_MissingArrayTableFails ==
  (ArrayQueried /\ (~Defines(S_arrlength) \/ ~Defines(S_arrelems))) => IsModelError(result)
\* an array of length 0 has been queried in a model without arrelems
C6_EmptyArrayWithoutElems ==
  /\ ArrayQueried /\ Defines(S_arrlength) /\ ~Defines(S_arrelems)
  /\ LengthOf(QueryRoot.name) = Int_(0)

(***************************************************************************)
(* C7.  For an application table of arity N, the branch list recorded for  *)
(* a function name is in the order of the chain, outermost first, and      *)
(* holds exactly the branches whose first conjunct names that function and *)
(* that were not dropped.  Hydrating a function reference whose name has   *)
(* entries for exactly one arity N yields a function of the parameters     *)
(* x_0 .. x_{N-1} whose body is one conditional return per branch with a   *)
(* non-empty condition list, in that order, then one unconditional return  *)
(* of the arity's default, which a branch with an empty condition list     *)
(* replaces.                                                               *)
(***************************************************************************)
FunNames == {N_f, N_g}
Arities == {1, 2}
AppName(N) == S_app \o numToString(Int_(N))
\* the branches along the else-spine of an application table, and its leaf
IsBranch(c) == IsList(c) /\ Len(c.l) = 4 /\ c.l[1] = Atom(S_ite) /\ IsList(c.l[2])
RECURSIVE AppBranches(_)
AppBranches(c) ==
  IF IsBranch(c) THEN <<[cond |-> c.l[2].l, then |-> c.l[3]]>> \o AppBranches(c.l[4])
  ELSE <<>>
RECURSIVE AppLeaf(_)
AppLeaf(c) == IF IsBranch(c) THEN AppLeaf(c.l[4]) ELSE c
\* the first conjunct of the branch names the function f
Names(b, f) ==
  Len(b.cond) >= 3 /\ b.cond[1] = Atom(S_and) /\ b.cond[2] = EqExpr(X(0), JsFun(f))
\* the p-th conjunct compares the argument it stands for with a simple value
IsArgCond(b, p) ==
  /\ IsList(b.cond[p]) /\ Len(b.cond[p].l) = 3
  /\ b.cond[p].l[1] = Atom(S_eq) /\ b.cond[p].l[2] = X(p - 2)
ArgValue(b, p) == tryParseSimpleValue(b.cond[p].l[3])
ArgPositions(b) == 5..Len(b.cond)
Usable(b) ==
  \A p \in ArgPositions(b) :
    IsArgCond(b, p) /\ ~IsThrow(ArgValue(b, p)) /\ ArgValue(b, p) # JSNull
RecordedFor(f, N) ==
  LET Kept(b) == Names(b, f) /\ Usable(b)
      kept == SelectSeq(AppBranches(BodyOf(AppName(N))), Kept)
  IN [i \in 1..Len(kept) |->
        [cond |-> [k \in 1..(Len(kept[i].cond) - 4) |-> ArgValue(kept[i], k + 4)],
         ret |-> parseLazyValue(kept[i].then)]]
\* x_k === c
Compare(k, c) ==
  [type |-> "BinaryExpression", operator |-> "===",
   left |-> id(<<"x", "_">> \o numToString(Int_(k))), right |-> valueToJavaScript(c)]
RECURSIVE TestOf(_, _)
TestOf(cond, k) ==
  IF k = Len(cond) THEN Compare(k - 1, cond[k])
  ELSE [type |-> "LogicalExpression", operator |-> "&&",
        left |-> Compare(k - 1, cond[k]), right |-> TestOf(cond, k + 1)]
Rendered(val) == valueToJavaScript(hydrate(model, val, MaxDepth))
BodyFor(f, N) ==
  LET branches == RecordedFor(f, N)
      NonEmpty(b) == Len(b.cond) # 0
      conditional == SelectSeq(branches, NonEmpty)
      empty == {i \in 1..Len(branches) : Len(branches[i].cond) = 0}
      final == IF empty = {} THEN parseLazyValue(AppLeaf(BodyOf(AppName(N))))
               ELSE branches[Largest(empty)].ret
  IN [i \in 1..Len(conditional) |->
        IfStatement(TestOf(conditional[i].cond, 1), Rendered(conditional[i].ret))]
     \o <<Return(Rendered(final))>>
FunctionFor(f, N) ==
  [type |-> "fun",
   body |-> FunctionExpression([k \in 1..N |-> id(<<"x", "_">> \o numToString(Int_(k - 1)))],
                               BodyFor(f, N))]
OnlyArity(f, N) == Has(model.funs, f) /\ DOMAIN model.funs[f] = {Int_(N)}
C7_BranchOrder ==
  pc = "ready" =>
    \A f \in FunNames, N \in Arities :
      Defines(AppName(N)) =>
        /\ IF Has(model.funs, f) /\ Has(model.funs[f], Int_(N))
             THEN model.funs[f][Int_(N)].body = RecordedFor(f, N)
             ELSE RecordedFor(f, N) = <<>>
        /\ OnlyArity(f, N) => hydrate(model, FunRef(f), MaxDepth) = FunctionFor(f, N)
\* a function of two recorded branches, one of them with an empty condition
\* list, has been hydrated
C7_TwoBranches ==
  /\ pc = "ready" /\ query = VarName(N_f) /\ result.type = "fun"
  /\ OnlyArity(N_f, 1) /\ Len(RecordedFor(N_f, 1)) = 2
  /\ Len(RecordedFor(N_f, 1)[1].cond) = 1 /\ Len(RecordedFor(N_f, 1)[2].cond) = 0
  /\ Len(result.body.body.body) = 2

(***************************************************************************)
(* C8.  For a function f with entries for exactly one arity and every      *)
(* argument tuple, evaluating the synthesized body (the conditionals top   *)
(* to bottom, then the final return) returns what the application chain    *)
(* assigns to f on those arguments: the hydrated result of the first       *)
(* branch of f, in chain order, whose recorded argument conditions all     *)
(* equal the arguments (a branch without conditions matches every tuple),  *)
(* and the arity's default leaf when no branch of f matches.               *)
(***************************************************************************)
ArgValues == {Num(Int_(1)), Num(Int_(2)), Num(Int_(3))}
ArgTuples(N) == [1..N -> ArgValues]
\* the argument an identifier x_k stands for
ArgOf(ident, args) == args[parseInt(substr(ident.name, 2), 10).n + 1]
RECURSIVE EvalTest(_, _)
EvalTest(test, args) ==
  IF test.type = "LogicalExpression"
    THEN EvalTest(test.left, args) /\ EvalTest(test.right, args)
    ELSE ArgOf(test.left, args) = test.right.value
\* the argument of the return statement the body ends with on args
RECURSIVE EvalBody(_, _, _)
EvalBody(stmts, i, args) ==
  IF stmts[i].type = "ReturnStatement" THEN stmts[i].argument
  ELSE IF EvalTest(stmts[i].test, args) THEN stmts[i].consequent.body[1].argument
  ELSE EvalBody(stmts, i + 1, args)
Matches(b, args) ==
  \A k \in 1..Len(b.cond) : k <= Len(args) /\ b.cond[k] = args[k]
ChainValue(f, N, args) ==
  LET branches == RecordedFor(f, N)
      hits == {i \in 1..Len(branches) : Matches(branches[i], args)}
  IN IF hits = {} THEN parseLazyValue(AppLeaf(BodyOf(AppName(N))))
     ELSE branches[Smallest(hits)].ret
BodyAgrees(f, N) ==
  \A args \in ArgTuples(N) :
    EvalBody(hydrate(model, FunRef(f), MaxDepth).body.body.body, 1, args)
      = Rendered(ChainValue(f, N, args))
\* as stated: for every function with entries for exactly one arity
C8_BodyAgreesWithChain ==
  pc = "ready" =>
    \A f \in FunNames, N \in Arities :
      (Defines(AppName(N)) /\ OnlyArity(f, N)) => BodyAgrees(f, N)
\* no recorded branch of f follows one with an empty condition list
EmptyOnlyLast(f, N) ==
  \A i \in 1..Len(RecordedFor(f, N)) :
    Len(RecordedFor(f, N)[i].cond) = 0 => i = Len(RecordedFor(f, N))
\* amended: for every such function none of whose branches follows a branch
\* with an empty condition list
C8_BodyAgreesWhenEmptyLast ==
  pc = "ready" =>
    \A f \in FunNames, N \in Arities :
      (Defines(AppName(N)) /\ OnlyArity(f, N) /\ EmptyOnlyLast(f, N)) => BodyAgrees(f, N)
\* a function of two arguments and one whose conditional branch is followed by
\* a branch without conditions have been built
C8_ConditionalThenEmpty ==
  /\ pc = "ready" /\ query = VarName(N_g) /\ result.type = "fun"
  /\ OnlyArity(N_g, 2) /\ Len(RecordedFor(N_g, 2)) = 1
  /\ OnlyArity(N_f, 1) /\ Len(RecordedFor(N_f, 1)) = 2
  /\ Len(RecordedFor(N_f, 1)[1].cond) = 1 /\ EmptyOnlyLast(N_f, 1)

(***************************************************************************)
(* C9.  When a branch of an application table has an argument condition    *)
(* that is no simple equality of the expected argument with a directly     *)
(* parseable scalar (a wrong shape, a reference value, an unparseable      *)
(* number), decoding does not fail: construction succeeds, the other       *)
(* branches and the default are recorded, and the branch has no effect on  *)
(* the later hydration of the function: hydration is what it is for the    *)
(* text without that branch.                                               *)
(***************************************************************************)
Unusable(b) == \E f \in FunNames : Names(b, f) /\ ~Usable(b)
HasUnusableBranch ==
  \E N \in Arities :
    Defines(AppName(N)) /\
      \E i \in 1..Len(AppBranches(BodyOf(AppName(N)))) :
        Unusable(AppBranches(BodyOf(AppName(N)))[i])
\* the chain without its unusable branches
RECURSIVE Pruned(_)
Pruned(c) ==
  IF ~IsBranch(c) THEN c
  ELSE IF Unusable([cond |-> c.l[2].l, then |-> c.l[3]]) THEN Pruned(c.l[4])
  ELSE IteExpr(c.l[2], c.l[3], Pruned(c.l[4]))
PrunedDefs ==
  [i \in 1..Len(Defs) |->
     IF IsDefinition(Defs[i]) /\ startsWith(Defs[i].l[2].s, S_app)
       THEN List(<<Defs[i].l[1], Defs[i].l[2], Defs[i].l[3], Defs[i].l[4], Pruned(Defs[i].l[5])>>)
       ELSE Defs[i]]
PrunedModel == parseDefinitions(PrunedDefs, NewModel)
C9_UnusableBranchOnlyDropped ==
  (pc # "new" /\ HasUnusableBranch) =>
    /\ pc = "ready"
    /\ \A f \in FunNames :
         hydrate(model, FunRef(f), MaxDepth) = hydrate(PrunedModel, FunRef(f), MaxDepth)
\* a text with an unusable branch has been given to the constructor
C9_UnusableBranchConstructed == pc # "new" /\ HasUnusableBranch

(***************************************************************************)
(* C10.  A definition whose name starts with h_ or app and goes on with    *)
(* characters that are no integer makes construction fail with an          *)
(* unrecognized-model error, and no table entry is made for it.            *)
(***************************************************************************)
IndexText(name) == IF startsWith(name, S_h_) THEN substr(name, 2) ELSE substr(name, 3)
HasUnindexedDef ==
  \E i \in 1..Len(Defs) :
    /\ IsDefinition(Defs[i])
    /\ startsWith(Defs[i].l[2].s, S_h_) \/ startsWith(Defs[i].l[2].s, S_app)
    /\ parseInt(IndexText(Defs[i].l[2].s), 10).nan
C10_UnindexedDefFails ==
  (pc # "new" /\ HasUnindexedDef) =>
    /\ pc = "failed" /\ thrown.type = "unrecognized-model"
    /\ ~Has(model.heaps, NaN) /\ ~Has(model.funDefaults, NaN)
\* a text with such a definition has been given to the constructor
C10_UnindexedDefConstructed == pc # "new" /\ HasUnindexedDef

(***************************************************************************)
(* C11.  Every failure of the construction of a Model or of a valueOf      *)
(* query is the one structured error: status error, kind                   *)
(* unrecognized-model, a location of the configured file name with zero    *)
(* start and end positions, and a description embedding the offending      *)
(* fragment; no input model makes them fail with an error of another kind. *)
(***************************************************************************)
IsStructuredError(e) ==
  /\ e.status = "error" /\ e.type = "unrecognized-model"
  /\ e.loc = [file |-> filename, start |-> <<0, 0>>, end |-> <<0, 0>>]
  /\ e.description.prefix = "cannot parse smt "
C11_OnlyStructuredErrors ==
  /\ pc = "failed" => IsStructuredError(thrown)
  /\ IsThrow(result) => IsStructuredError(result.error)
\* a query has failed on a constructed Model
C11_QueryFailed == pc = "ready" /\ query.kind = "string" /\ IsThrow(result)

(***************************************************************************)
(* C12.  If an element of the model body is no recognized definition (it   *)
(* is no define-fun of a name, arguments, a sort and a body, or its name   *)
(* has no known prefix, is no table name and its shape is neither residual *)
(* shape), construction fails with an unrecognized-model error, whatever   *)
(* the other definitions and wherever the element stands.                  *)
(***************************************************************************)
KnownPrefixes == {S_v_, S_l_, S_h_, S_c_, S_app, S_pre, S_post, S_eff, S_call}
TableNames == {S_arrlength, S_arrelems, S_objproperties, S_objfield}
IsRecognized(d) ==
  /\ IsDefinition(d)
  /\ \/ d.l[2].s \in TableNames
     \/ \E p \in KnownPrefixes : startsWith(d.l[2].s, p)
     \/ IsHeapMappingDef(d)
     \/ IsPropertiesDef(d)
Unrecognized == {i \in 1..Len(Defs) : ~IsRecognized(Defs[i])}
C12_UnrecognizedFails ==
  (pc # "new" /\ Unrecognized # {}) => (pc = "failed" /\ thrown.type = "unrecognized-model")
\* a body with an element that is no define-fun has been given to the
\* constructor, first or last in the body
C12_ForeignElementConstructed ==
  /\ pc # "new" /\ Unrecognized # {}
  /\ \E i \in Unrecognized : IsList(Defs[i]) /\ ~IsDefinition(Defs[i])

(***************************************************************************)
(* C13.  Two model bodies that hold the same definitions, of pairwise      *)
(* distinct names, in different orders either both fail to construct or    *)
(* both construct, and then every query (valueOf of each name and of each  *)
(* location and generation, variables, mutableVariables) returns equal     *)
(* results on the two Models.                                              *)
(***************************************************************************)
DistinctNames ==
  /\ \A i \in 1..Len(Defs) : IsDefinition(Defs[i])
  /\ \A i, j \in 1..Len(Defs) : Defs[i].l[2] = Defs[j].l[2] => i = j
\* the Model of the same definitions in the opposite order
Reordered == parseDefinitions(Reversed(Defs), NewModel)
SameAnswers(T1, T2) ==
  /\ \A name \in Queries : valueOf(T1, name) = valueOf(T2, name)
  /\ variables(T1) = variables(T2)
  /\ mutableVariables(T1) = mutableVariables(T2)
C13_OrderIndependent ==
  (pc # "new" /\ Len(Defs) >= 2 /\ DistinctNames) =>
    /\ IsThrow(Reordered) <=> pc = "failed"
    /\ pc = "ready" => SameAnswers(model, Reordered)
\* a body of several definitions of distinct names, two of them heap
\* definitions, has been constructed
C13_TwoHeapsConstructed ==
  /\ pc = "ready" /\ DistinctNames
  /\ Cardinality({i \in 1..Len(Defs) : startsWith(Defs[i].l[2].s, S_h_)}) = 2

(***************************************************************************)
(* C14.  After construction, valueOf, variables and mutableVariables leave *)
(* every table of the Model unchanged, whether the query succeeds or       *)
(* fails; so a query made again returns a result equal to its first one.   *)
(***************************************************************************)
C14_QueriesPure ==
  [][pc = "ready" => /\ model' = model
                     /\ query' = query => result' = result]_vars_all
\* a query has failed on a constructed Model, and the Model still holds the
\* tables of its text
C14_FailedQueryAnswered ==
  /\ pc = "ready" /\ query.kind = "loc" /\ IsThrow(result)
  /\ model = parseDefinitions(Defs, NewModel)

(***************************************************************************)
(* C15.  Hydration of a reference succeeds only if the name of the         *)
(* reference resolves in its table: hydrating an array, object or function *)
(* reference whose name no test of the arrlength, arrelems, objproperties  *)
(* or objfield chain names, or for which no application table has a        *)
(* branch, fails with an unrecognized-model error.                         *)
(***************************************************************************)
\* the reference names the tests of a table's chain name
NamedIn(table, kind) ==
  IF Defines(table)
    THEN {ChainTests(BodyOf(table), kind)[i].key[1] :
            i \in 1..Len(ChainTests(BodyOf(table), kind))}
    ELSE {}
\* the function names the branches of the application tables name
AppTables == {i \in 1..Len(Defs) : IsDefinition(Defs[i]) /\ startsWith(Defs[i].l[2].s, S_app)}
HasBranch(f) ==
  \E i \in AppTables :
    \E j \in 1..Len(AppBranches(Defs[i].l[5])) : Names(AppBranches(Defs[i].l[5])[j], f)
Resolves(lazy) ==
  CASE lazy.type = "arr-ref" ->
         lazy.name \in NamedIn(S_arrlength, "name") \cup NamedIn(S_arrelems, "index")
    [] lazy.type = "obj-ref" ->
         lazy.name \in NamedIn(S_objproperties, "name") \cup NamedIn(S_objfield, "field")
    [] lazy.type = "fun-ref" -> HasBranch(lazy.name)
    [] OTHER -> TRUE
\* a variable bound to a reference has been queried
ReferenceQueried ==
  /\ pc = "ready" /\ query.kind = "string" /\ Defines(S_v_ \o query.name)
  /\ QueryRoot.type \in {"arr-ref", "obj-ref", "fun-ref"}
C15_UnresolvedReferenceFails ==
  (ReferenceQueried /\ ~Resolves(QueryRoot)) => IsModelError(result)
\* an array that no table names has been queried in a model that defines both
\* array tables
C15_UnnamedArrayQueried ==
  /\ ReferenceQueried /\ QueryRoot.type = "arr-ref" /\ ~Resolves(QueryRoot)
  /\ Defines(S_arrlength) /\ Defines(S_arrelems)

(***************************************************************************)
(* C16.  Decoding a quoted string literal replaces every escape \xNN, NN   *)
(* two hexadecimal digits (0-9, a-f, A-F), by the character of code NN and *)
(* leaves the other characters as they are; str.++ of decodable parts      *)
(* decodes to the concatenation of the decoded parts; a part that is not   *)
(* decodable (a str.at form) makes the whole result null, without a throw. *)
(***************************************************************************)
\* the literal's characters with every \xNN replaced
RECURSIVE Unescaped(_)
Unescaped(s) ==
  IF Len(s) >= 4 /\ s[1] = "\\" /\ s[2] = "x" /\ IsRadixDigit(s[3], 16) /\ IsRadixDigit(s[4], 16)
    THEN fromCharCode(Int_(16 * RadixDigitVal(s[3]) + RadixDigitVal(s[4])))
           \o Unescaped(SubSeq(s, 5, Len(s)))
  ELSE IF s = <<>> THEN <<>>
  ELSE <<Head(s)>> \o Unescaped(Tail(s))
IsQuoted(e) == IsAtom(e) /\ Len(e.s) >= 2 /\ Head(e.s) = "\"" /\ e.s[Len(e.s)] = "\""
IsConcat(e) == IsList(e) /\ Len(e.l) >= 1 /\ e.l[1] = Atom(S_str_concat)
RECURSIVE Decoded(_)
RECURSIVE DecodedParts(_, _)
Decoded(e) ==
  IF IsQuoted(e) THEN SomeStr(Unescaped(inner(e.s)))
  ELSE IF IsConcat(e) THEN DecodedParts(e.l, 2)
  ELSE IF IsList(e) /\ Len(e.l) = 2 /\ e.l[1] \in {Atom(S_seq_unit), Atom(S_str_from_code)}
         /\ ~parseCharCode(e.l[2]).null
    THEN SomeStr(fromCharCode(parseCharCode(e.l[2]).v))
  ELSE NoStr
DecodedParts(l, i) ==
  IF i > Len(l) THEN SomeStr(<<>>)
  ELSE IF Decoded(l[i]).null \/ DecodedParts(l, i + 1).null THEN NoStr
  ELSE SomeStr(Decoded(l[i]).s \o DecodedParts(l, i + 1).s)
\* the text binds the variable a to (jsstr e)
BindsString ==
  /\ pc # "new" /\ Defines(S_v_ \o N_a)
  /\ IsList(BodyOf(S_v_ \o N_a)) /\ Len(BodyOf(S_v_ \o N_a).l) = 2
  /\ BodyOf(S_v_ \o N_a).l[1] = Atom(S_jsstr)
StringExpr == BodyOf(S_v_ \o N_a).l[2]
C16_StringDecoding ==
  BindsString =>
    /\ parseStringValue(StringExpr) = Decoded(StringExpr)
    /\ (pc = "ready" /\ query = VarName(N_a)) => result = Str(Decoded(StringExpr).s)
\* a literal with an escape of a hexadecimal digit that is a letter has been
\* decoded and returned
C16_LetterEscapeQueried ==
  /\ BindsString /\ pc = "ready" /\ query = VarName(N_a) /\ IsQuoted(StringExpr)
  /\ \E i \in 1..(Len(StringExpr.s) - 3) :
       /\ StringExpr.s[i] = "\\" /\ StringExpr.s[i + 1] = "x"
       /\ IsRadixDigit(StringExpr.s[i + 2], 16) /\ IsRadixDigit(StringExpr.s[i + 3], 16)
       /\ ~IsDigit(StringExpr.s[i + 3])

(***************************************************************************)
(* C17.  The set decoded from a boolean if/then/else chain over string     *)
(* keys contains a key k exactly when the chain, read as a predicate with  *)
(* first-match semantics, is true on k, for every literal key k of the     *)
(* chain, chains with a repeated key or a chain in a then-branch included; *)
(* a chain that decodes to no set is registered as the empty set.          *)
(***************************************************************************)
IsBoolTest(c) ==
  /\ IsList(c) /\ Len(c.l) = 4 /\ c.l[1] = Atom(S_ite)
  /\ IsList(c.l[2]) /\ Len(c.l[2].l) = 3 /\ c.l[2].l[1] = Atom(<<"=">>)
  /\ IsQuoted(c.l[2].l[3])
TestedKey(c) == inner(c.l[2].l[3].s)
\* the chain as a predicate on keys: the first test of k decides the branch
RECURSIVE HoldsOn(_, _)
HoldsOn(c, k) ==
  IF IsBoolTest(c)
    THEN IF TestedKey(c) = k THEN HoldsOn(c.l[3], k) ELSE HoldsOn(c.l[4], k)
  ELSE c = Atom(S_true)
RECURSIVE LiteralKeys(_)
LiteralKeys(c) ==
  IF IsBoolTest(c) THEN {TestedKey(c)} \cup LiteralKeys(c.l[3]) \cup LiteralKeys(c.l[4])
  ELSE {}
\* a chain of tests with true and false leaves only
RECURSIVE IsBoolChain(_)
IsBoolChain(c) ==
  IF IsBoolTest(c) THEN IsBoolChain(c.l[3]) /\ IsBoolChain(c.l[4])
  ELSE c \in {Atom(S_true), Atom(S_false)}
Members(set) == {set[j] : j \in 1..Len(set)}
PropertySetDefs ==
  {i \in 1..Len(Defs) : /\ IsPropertiesDef(Defs[i]) /\ IsBoolChain(Defs[i].l[5])
                         /\ DefsNamed(Defs[i].l[2].s) = {i}}
C17_SetBuilderSemantics ==
  pc = "ready" =>
    \A i \in PropertySetDefs :
      LET name == Defs[i].l[2].s
          chain == Defs[i].l[5] IN
      /\ Has(model.objPropertyMappings, name)
      /\ parsePropertyMapping(chain).null => model.objPropertyMappings[name] = <<>>
      /\ \A k \in LiteralKeys(chain) :
           k \in Members(model.objPropertyMappings[name]) <=> HoldsOn(chain, k)
\* a chain that tests a key twice or has a chain in a then-branch has been
\* decoded and registered
C17_NestedChainRegistered ==
  /\ pc = "ready"
  /\ \E i \in PropertySetDefs :
       /\ IsBoolTest(Defs[i].l[5])
       /\ \/ IsBoolTest(Defs[i].l[5].l[3])
          \/ /\ IsBoolTest(Defs[i].l[5].l[4])
             /\ TestedKey(Defs[i].l[5].l[4]) = TestedKey(Defs[i].l[5])
       /\ Has(model.objPropertyMappings, Defs[i].l[2].s)

====
